---- MODULE Spec2Model ----
(***************************************************************************)
(* A model of src/js/assets.js: the asset source registry, the asset cache *)
(* registry and its content store, assets.get, getRemote and the updater.  *)
(*                                                                         *)
(* JavaScript objects with optional properties are functions whose DOMAIN  *)
(* is the set of properties present: `delete o[k]` shrinks the domain.     *)
(* An async function is cut where it really suspends (a storage round      *)
(* trip, a fetch, a timer); an await on the memoized registry promise,     *)
(* once that promise is resolved, resumes in the same run of microtasks    *)
(* and is not a cut.  A call made while a registry is still loading runs   *)
(* its body when the load settles: the model starts it at that moment.     *)
(***************************************************************************)
EXTENDS Integers, Sequences, FiniteSets, TLC

(***************************************************************************)
(* Bounds of the model.                                                    *)
(***************************************************************************)
\* The clock stops after this many days past process start.
MaxTicks == 2
\* Calls of assets.get / getRemote that may be suspended on a fetch at once.
MaxTasks == 2
\* Calls of assetCacheRemove that may be waiting on cacheStorage at once.
MaxRemoving == 2
\* Calls the client of the module makes in one run, the days that pass
\* counted with them.
MaxCalls == 3
\* Diff phases (calls of diffUpdater with a worker) that may be under way at
\* once.
MaxDiffs == 1

(***************************************************************************)
(* Program constants.  The model's clock counts days, so MS_PER_DAY is one *)
(* unit of it.                                                             *)
(***************************************************************************)
MS_PER_DAY == 1
EXPIRES_DEFAULT == 7
updaterAssetDelayDefault == 120000

\* Date.now() when the module is evaluated (assetCacheRegistryStartTime).
assetCacheRegistryStartTime == 8

(***************************************************************************)
(* JavaScript values.                                                      *)
(***************************************************************************)
\* The property bag {} / Object.create(null).
EmptyObject == [x \in {} |-> 0]

Has(o, p) == p \in DOMAIN o

\* o[p] = v
SetProp(o, p, v) == [x \in DOMAIN o \cup {p} |-> IF x = p THEN v ELSE o[x]]

\* delete o[p]
DeleteProp(o, p) == [x \in DOMAIN o \ {p} |-> o[x]]

\* delete o[k] for every k of ks
DeleteProps(o, ks) == [x \in DOMAIN o \ ks |-> o[x]]

Range(s) == {s[i] : i \in DOMAIN s}

\* s with its i-th element removed.
RemoveAt(s, i) == [j \in 1..(Len(s) - 1) |-> IF j < i THEN s[j] ELSE s[j + 1]]

(***************************************************************************)
(* Asset keys and URLs.  A URL is external when it matches                 *)
(* reIsExternalPath, /^(?:[a-z-]+):\/\//.                                  *)
(***************************************************************************)
AssetKeys == {"k1", "k2"}

\* reIsUserAsset = /^user-/ and the keys of user assets: µb.userFiltersPath
\* and one more.
UserNames == {"filters", "x"}
UserKeys == {"user-" \o name : name \in UserNames}
reIsUserAsset(assetKey) == \E name \in UserNames : assetKey = "user-" \o name
userFiltersPath == "user-filters"

ExternalURLs == {"https://a/1", "https://a/2", "https://cdn/1"}
LocalURLs == {"assets/local.txt"}
URLs == ExternalURLs \cup LocalURLs

reIsExternalPath(url) == url \in ExternalURLs

(***************************************************************************)
(* Resource bodies.  A body is an opaque text; the header fields that      *)
(* extractMetadataFromList reads from its first 1024 characters are given  *)
(* by the tables below (times in days on the model's clock).               *)
(*   "A"      a list with no header field                                  *)
(*   "B1"     a list with `! Last-Modified:` day 1                         *)
(*   "B2"     a list with `! Last-Modified:` day 2 and `! Expires: 2d`     *)
(*   "P1"     a list with `! Last-Modified:` day 3, `! Diff-Name:`,        *)
(*            `! Diff-Path:` and `! Diff-Expires: 1d`, as the diff worker   *)
(*            returns it                                                    *)
(*   "<html>" a body that starts with `<` and ends with `>`                *)
(*   ""       an empty body                                                *)
(***************************************************************************)
Lists == {"A", "B1", "B2"}
Bodies == Lists \cup {"", "<html>"}

HeaderOf(content) ==
    CASE content = "B1" -> [lastModified |-> 1]
      [] content = "B2" -> [lastModified |-> 2, expires |-> 2]
      [] content = "P1" -> [lastModified |-> 3, diffName |-> "n1",
                            diffPath |-> "p1", diffExpires |-> 1]
      [] OTHER -> EmptyObject

stringIsNotEmpty(s) == s # ""

\* text.startsWith('<') && text.endsWith('>')
LooksLikeHTML(content) == content = "<html>"

\* The fields found among those asked for; a field that is not found is
\* undefined, that is, absent from the result.
extractMetadataFromList(content, fields) ==
    LET head == HeaderOf(content)
    IN  [f \in DOMAIN head \cap fields |-> head[f]]

ListFields == {"lastModified", "expires", "diffName", "diffPath", "diffExpires"}

Max(a, b) == IF a > b THEN a ELSE b

\* A minimum that is its second argument.
TakesSecond(a, b) == b

Min(a, b) == IF a < b THEN a ELSE b

(***************************************************************************)
(* The transport.  What an XMLHttpRequest can end with: an error, abort or *)
(* timeout event, or a load event with a status, a status text, a response *)
(* body and the time the Date and Age headers give (0: no such headers).   *)
(***************************************************************************)
XhrError == [event |-> "error"]

XhrLoad(status, statusText, response, networkTime) ==
    [event |-> "load", status |-> status, statusText |-> statusText,
     response |-> response, networkTime |-> networkTime]

XhrOutcomes ==
    { XhrError,
      XhrLoad(404, "Not Found", "<html>", 0),
      XhrLoad(404, "", "", 0),
      XhrLoad(200, "OK", "", 0),
      XhrLoad(200, "OK", "<html>", 0),
      XhrLoad(200, "OK", "A", 0),
      XhrLoad(200, "", "A", 3),
      XhrLoad(200, "OK", "B1", 0),
      XhrLoad(200, "OK", "B2", 0) }

resourceTimeFromXhr(xhr) ==
    LET metadata == extractMetadataFromList(xhr.response, {"lastModified"})
        assetTime == IF Has(metadata, "lastModified") THEN metadata.lastModified ELSE 0
        networkTime == IF assetTime = 0 THEN xhr.networkTime ELSE 0
    IN  Max(Max(assetTime, networkTime), 0)

\* assets.fetch: the details it resolves or rejects with.
fetch(url, xhr) ==
    IF xhr.event # "load"
    THEN [url |-> url, content |-> "", error |-> "errorCantConnectTo"]
    ELSE LET statusCode == IF xhr.status = 0 THEN 200 ELSE xhr.status
         IN  IF statusCode < 200 \/ statusCode >= 300
             THEN [url |-> url, statusCode |-> statusCode,
                   statusText |-> xhr.statusText,
                   content |-> "", error |-> "http status"]
             ELSE [url |-> url, statusCode |-> statusCode,
                   statusText |-> xhr.statusText,
                   content |-> xhr.response,
                   resourceTime |-> resourceTimeFromXhr(xhr)]

\* assets.fetchText: a rejection is returned as it is; a resolved response
\* that looks like HTML loses its content and gains an error.
fetchText(url, xhr) ==
    LET details == fetch(url, xhr)
    IN  IF Has(details, "error") THEN details
        ELSE IF LooksLikeHTML(details.content)
        THEN SetProp(SetProp(details, "content", ""), "error", "Not a text file")
        ELSE details

(***************************************************************************)
(* Lists that include sublists.  A list body is a text; the table below    *)
(* gives, for the bodies that carry `!#include` directives, what reInclude *)
(* finds in them: for each directive the text from the end of the one      *)
(* before it to its own end, and the name it gives; then the text that     *)
(* follows the last directive.  No body carries an `!#if` directive: the   *)
(* preparser's splitter returns the body as one slice.                     *)
(***************************************************************************)
Include(text, name) == [text |-> text, name |-> name]

IncludingLists ==
    { [includes |-> <<Include("m;#s1;", "s1")>>, rest |-> "n;"],
      [includes |-> <<Include("m;#s1;", "s1"), Include("#s2;", "s2")>>, rest |-> "n;"],
      [includes |-> <<Include("m;#../x;", "../x"), Include("#s2;", "s2")>>, rest |-> "n;"],
      [includes |-> <<Include("s;#s2;", "s2")>>, rest |-> "t;"],
      [includes |-> <<Include("s;#1;", "1"), Include("#s1;", "s1")>>, rest |-> "t;"] }

RECURSIVE Join(_)
Join(strings) ==
    IF strings = <<>> THEN "" ELSE Head(strings) \o Join(Tail(strings))

\* The body of a list of IncludingLists.
ListText(list) ==
    Join([j \in DOMAIN list.includes |-> list.includes[j].text]) \o list.rest

IncludesOf(content) ==
    IF \E list \in IncludingLists : ListText(list) = content
    THEN (CHOOSE list \in IncludingLists : ListText(list) = content).includes
    ELSE <<>>

\* toParsedURL(match[1]) !== undefined || match[1].indexOf('..') !== -1
SkippedInclude(name) == name = "../x"

\* url.slice(0, url.lastIndexOf('/') + 1)
DirectoryOf(url) ==
    CASE url \in {"https://a/1", "https://a/2", "https://a/s1", "https://a/s2"} ->
            "https://a/"
      [] url \in {"https://cdn/1", "https://cdn/s1", "https://cdn/s2"} -> "https://cdn/"
      [] OTHER -> "assets/"

\* The parts of fetchFilterList: a string, a fetch under way, or the
\* details a fetch settled with.
StringPart(text) == [type |-> "string", text |-> text]
PromisePart(url) == [type |-> "promise", url |-> url]
ObjectPart(details) == [type |-> "object", details |-> details]

\* resourceTimeFromParts
RECURSIVE resourceTimeFromParts(_, _)
resourceTimeFromParts(parts, time) ==
    IF parts = <<>> THEN time
    ELSE LET part == Head(parts)
             t == IF part.type = "object" /\ Has(part.details, "resourceTime")
                  THEN part.details.resourceTime ELSE 0
         IN  resourceTimeFromParts(Tail(parts), IF t > time THEN t ELSE time)

\* isDiffUpdatableAsset
isDiffUpdatableAsset(content) ==
    Has(extractMetadataFromList(content, {"diffPath"}), "diffPath")

\* The loop over the matches of reInclude in the one slice of a part, from
\* the j-th directive on: text holds what was matched since lastIndex.
RECURSIVE includeLoop(_, _, _, _, _, _)
includeLoop(result, j, text, out, sublistURLs, rest) ==
    LET includes == IncludesOf(result.content)
    IN  IF j > Len(includes)
        THEN [out |-> Append(out, StringPart(text \o rest)),
              sublistURLs |-> sublistURLs]
        ELSE
        LET match == includes[j]
            subURL == DirectoryOf(result.url) \o match.name
        IN  IF SkippedInclude(match.name) \/ subURL \in Range(sublistURLs)
            THEN includeLoop(result, j + 1, text \o match.text, out, sublistURLs, rest)
            ELSE includeLoop(result, j + 1, "",
                    out \o <<StringPart(text \o match.text),
                             StringPart("! >>>>>>>> " \o subURL \o ";"),
                             PromisePart(subURL),
                             StringPart("! <<<<<<<< " \o subURL \o ";")>>,
                    Append(sublistURLs, subURL), rest)

\* The text that follows the last directive of a body.
RestOf(content) ==
    IF \E list \in IncludingLists : ListText(list) = content
    THEN (CHOOSE list \in IncludingLists : ListText(list) = content).rest
    ELSE content

\* processIncludeDirectives(results); sublistURLs lists the set of that
\* name in the order the URLs were added.
RECURSIVE processIncludeDirectives(_, _, _)
processIncludeDirectives(results, out, sublistURLs) ==
    IF results = <<>> THEN [out |-> out, sublistURLs |-> sublistURLs]
    ELSE LET result == Head(results)
         IN  IF result.type = "string"
             THEN processIncludeDirectives(Tail(results), Append(out, result),
                                           sublistURLs)
             ELSE LET done == includeLoop(result.details, 1, "", out, sublistURLs,
                                          RestOf(result.details.content))
                  IN  processIncludeDirectives(Tail(results), done.out,
                                               done.sublistURLs)

\* await Promise.all(allParts): every fetch under way settles as web, which
\* gives each URL the outcome of a request for it, has it.
Settled(allParts, web) ==
    [j \in DOMAIN allParts |->
        IF allParts[j].type = "promise"
        THEN ObjectPart(fetchText(allParts[j].url, web[allParts[j].url]))
        ELSE allParts[j]]

\* A search that finds no part in error.
FindsNone(allParts) == <<>>

\* allParts.find(part => typeof part === 'object' && part.error !== undefined)
RECURSIVE FindErrored(_)
FindErrored(allParts) ==
    IF allParts = <<>> THEN <<>>
    ELSE IF Head(allParts).type = "object" /\ Has(Head(allParts).details, "error")
    THEN <<Head(allParts).details>>
    ELSE FindErrored(Tail(allParts))

\* One pass of the do ... while loop of fetchFilterList, from one await to
\* the next: the details returned if the loop ends there, what the next
\* pass starts from if it does not and, for the properties, the URLs
\* fetched, in the order of their scheduling, and the errors they met.
fetchFilterListPass(mainlistURL, web, pending, sublistURLs, resourceTime0, fetched, errors) ==
    LET allParts == Settled(pending, web)
        now1 == fetched \o
                   [j \in 1..Len(SelectSeq(pending, LAMBDA part : part.type = "promise")) |->
                       SelectSeq(pending, LAMBDA part : part.type = "promise")[j].url]
        errors1 == errors \cup
                   {allParts[j].details.error :
                       j \in {x \in DOMAIN allParts :
                                /\ allParts[x].type = "object"
                                /\ Has(allParts[x].details, "error")}}
        part == FindErrored(allParts)
        resourceTime == resourceTimeFromParts(allParts, resourceTime0)
        run(details) == [done |-> TRUE, details |-> details, fetched |-> now1,
                         errors |-> errors1]
    IN  IF part # <<>>
        THEN run([url |-> mainlistURL, content |-> "", error |-> part[1].error])
        ELSE IF /\ Len(allParts) = 1 /\ allParts[1].type = "object"
                /\ isDiffUpdatableAsset(allParts[1].details.content)
        THEN run([url |-> mainlistURL, resourceTime |-> resourceTime,
                  content |-> allParts[1].details.content])
        ELSE
        LET next == processIncludeDirectives(allParts, <<>>, sublistURLs)
        IN  IF \E j \in DOMAIN next.out : next.out[j].type # "string"
            THEN [done |-> FALSE, pending |-> next.out,
                  sublistURLs |-> next.sublistURLs, resourceTime |-> resourceTime,
                  fetched |-> now1, errors |-> errors1]
            ELSE run([url |-> mainlistURL, resourceTime |-> resourceTime,
                      content |->
                         IF Len(next.out) = 1 THEN next.out[1].text
                         ELSE Join([j \in DOMAIN next.out |-> next.out[j].text])
                              \o ";"])

\* What the call settles with, as the last pass has it.
RunOf(pass) ==
    [details |-> pass.details, fetched |-> pass.fetched, errors |-> pass.errors]

\* The do ... while loop of fetchFilterList, from start to end.
RECURSIVE fetchFilterListLoop(_, _, _, _, _, _, _)
fetchFilterListLoop(mainlistURL, web, pending, sublistURLs, resourceTime0, fetched, errors) ==
    CHOOSE run \in
        { IF pass.done THEN RunOf(pass)
          ELSE fetchFilterListLoop(mainlistURL, web, pass.pending, pass.sublistURLs,
                                   pass.resourceTime, pass.fetched, pass.errors) :
          pass \in {fetchFilterListPass(mainlistURL, web, pending, sublistURLs,
                                        resourceTime0, fetched, errors)} } : TRUE

\* A call of assets.fetchFilterList(mainlistURL) from start to end.
fetchFilterListRun(mainlistURL, web) ==
    fetchFilterListLoop(mainlistURL, web, <<PromisePart(mainlistURL)>>, <<>>, 0,
                        <<>>, {})

\* assets.fetchFilterList: the details it returns.
fetchFilterList(mainlistURL, web) == fetchFilterListRun(mainlistURL, web).details

\* The web in which only url answers, as xhr has it.
OnlyURL(url, xhr) == [u \in {url} |-> xhr]

\* A test that finds no fetched copy stale.
neverStale(networkDetails, cacheDetails) == FALSE

\* A test that compares the two resource times the other way round.
staleWhenNewer(networkDetails, cacheDetails) ==
    /\ Has(networkDetails, "resourceTime") /\ networkDetails.resourceTime # 0
    /\ Has(cacheDetails, "resourceTime") /\ cacheDetails.resourceTime # 0
    /\ networkDetails.resourceTime > cacheDetails.resourceTime

resourceIsStale(networkDetails, cacheDetails) ==
    IF ~Has(networkDetails, "resourceTime") THEN FALSE
    ELSE IF networkDetails.resourceTime = 0 THEN FALSE
    ELSE IF ~Has(cacheDetails, "resourceTime") THEN FALSE
    ELSE IF cacheDetails.resourceTime = 0 THEN FALSE
    ELSE networkDetails.resourceTime < cacheDetails.resourceTime

(***************************************************************************)
(* The state.                                                              *)
(***************************************************************************)
VARIABLES
    now,                        \* Date.now(), in days
    cacheStorage,               \* the cache storage (cachestorage.js)
    storage,                    \* vAPI.storage, the settings storage
    assetSourceRegistryPromise, \* "undefined", "pending" or "resolved"
    assetSourceRegistry,
    sourceSaveTimer,            \* the timer of saveAssetSourceRegistry
    assetCacheRegistryPromise,  \* "undefined", "pending" or "resolved"
    assetCacheRegistry,
    cacheSaveTimer,             \* the timer of saveAssetCacheRegistry
    observers,
    remoteServerFriendly,
    updaterStatus,              \* "undefined" or "updating"
    updaterFetched,
    updaterUpdated,
    updaterAssetDelay,
    updaterAuto,
    updaterTimer,               \* whether the timer of updateNext is armed
    diffUpdaterPending,         \* calls of diffUpdater that have not resolved
    diffs,                      \* the diff phases under way, each with its worker
    tasks,                      \* calls of get / getRemote suspended on I/O
    removing,                   \* calls of assetCacheRemove waiting on cacheStorage
    calls,                      \* how many calls were made and days have passed
    fired,                      \* the notifications the last step fired
    ret,                        \* what the call that returned in the last step returned
    hist                        \* history, read only by the properties

vars == <<now, cacheStorage, storage, assetSourceRegistryPromise, assetSourceRegistry,
          sourceSaveTimer, assetCacheRegistryPromise, assetCacheRegistry,
          cacheSaveTimer, observers, remoteServerFriendly, updaterStatus,
          updaterFetched, updaterUpdated, updaterAssetDelay, updaterAuto,
          updaterTimer, diffUpdaterPending, diffs, tasks, removing, calls, fired, ret,
          hist>>

\* The enumeration order of `for ( const assetKey in dict )`.
KeyOrder == <<"assets.json", "k1", "k2", "k3">>

KeysInOrder(S) == SelectSeq(KeyOrder, LAMBDA k : k \in S)

NoRet == EmptyObject

(***************************************************************************)
(* A step works on a record of the mutable state, W, threaded through the  *)
(* operators that model the functions of assets.js; Commit makes the       *)
(* result the next state.  `fired` and `ret` start empty in every step.    *)
(***************************************************************************)
World ==
    [ now |-> now,
      cacheStorage |-> cacheStorage,
      storage |-> storage,
      assetSourceRegistry |-> assetSourceRegistry,
      sourceSaveTimer |-> sourceSaveTimer,
      assetCacheRegistry |-> assetCacheRegistry,
      cacheSaveTimer |-> cacheSaveTimer,
      observers |-> observers,
      remoteServerFriendly |-> remoteServerFriendly,
      updaterStatus |-> updaterStatus,
      updaterFetched |-> updaterFetched,
      updaterUpdated |-> updaterUpdated,
      updaterAssetDelay |-> updaterAssetDelay,
      updaterAuto |-> updaterAuto,
      updaterTimer |-> updaterTimer,
      diffUpdaterPending |-> diffUpdaterPending,
      diffs |-> diffs,
      tasks |-> tasks,
      removing |-> removing,
      calls |-> calls,
      fired |-> <<>>,
      ret |-> NoRet,
      hist |-> [hist EXCEPT !.step = EmptyObject] ]

\* The step ends in the state w.
Commit(w) ==
    \E v \in {w} :
        /\ now' = v.now
        /\ cacheStorage' = v.cacheStorage
        /\ storage' = v.storage
        /\ assetSourceRegistry' = v.assetSourceRegistry
        /\ sourceSaveTimer' = v.sourceSaveTimer
        /\ assetCacheRegistry' = v.assetCacheRegistry
        /\ cacheSaveTimer' = v.cacheSaveTimer
        /\ observers' = v.observers
        /\ remoteServerFriendly' = v.remoteServerFriendly
        /\ updaterStatus' = v.updaterStatus
        /\ updaterFetched' = v.updaterFetched
        /\ updaterUpdated' = v.updaterUpdated
        /\ updaterAssetDelay' = v.updaterAssetDelay
        /\ updaterAuto' = v.updaterAuto
        /\ updaterTimer' = v.updaterTimer
        /\ diffUpdaterPending' = v.diffUpdaterPending
        /\ diffs' = v.diffs
        /\ tasks' = v.tasks
        /\ removing' = v.removing
        /\ calls' = v.calls
        /\ fired' = v.fired
        /\ ret' = v.ret
        /\ hist' = v.hist
        /\ UNCHANGED <<assetSourceRegistryPromise, assetCacheRegistryPromise>>

(***************************************************************************)
(* The observer bus.                                                       *)
(***************************************************************************)
\* What an observer returns for before-asset-updated, "undefined" for
\* nothing: "selected" vetoes the removal of every asset, "selectedK1"
\* that of k1 alone, "unselected" returns false, "logger" returns nothing.
ObserverReturns(observer, topic, details) ==
    IF topic # "before-asset-updated" THEN "undefined"
    ELSE CASE observer = "selected" -> "true"
           [] observer = "selectedK1" ->
                IF details.assetKey = "k1" THEN "true" ELSE "undefined"
           [] observer = "unselected" -> "false"
           [] OTHER -> "undefined"

RECURSIVE LastDefined(_, _, _, _)
LastDefined(obs, topic, details, result) ==
    IF obs = <<>> THEN result
    ELSE LET r == ObserverReturns(Head(obs), topic, details)
         IN  LastDefined(Tail(obs), topic, details,
                         IF r # "undefined" THEN r ELSE result)

\* The value fireNotification returns.
fireNotificationResult(obs, topic, details) ==
    LastDefined(obs, topic, details, "undefined")

\* fireNotification, for its effect: every observer is called.
fireNotification(w, topic, details) ==
    [w EXCEPT !.fired = Append(@, [topic |-> topic, details |-> details])]

(***************************************************************************)
(* References.  A local variable of a suspended call that holds a registry *)
(* entry holds the object, not a copy: [ref |-> "registry"] while the      *)
(* entry is still the one in the registry, [ref |-> "own", obj |-> o] for  *)
(* a fresh {} or for an entry that was deleted from the registry since.    *)
(***************************************************************************)
InRegistry == [ref |-> "registry"]
Own(o) == [ref |-> "own", obj |-> o]

Deref(registry, assetKey, r) ==
    IF r.ref = "registry" THEN registry[assetKey] ELSE r.obj

\* The suspended calls keep the entries that `delete registry[k]`, k in
\* keys, removes from the registry; field is the local variable concerned.
Detach(ts, field, registry, keys) ==
    [i \in DOMAIN ts |->
        IF /\ Has(ts[i], field)
           /\ ts[i][field].ref = "registry"
           /\ ts[i].assetKey \in keys
           /\ ts[i].assetKey \in DOMAIN registry
        THEN [ts[i] EXCEPT ![field] = Own(registry[ts[i].assetKey])]
        ELSE ts[i]]

(***************************************************************************)
(* History kept for the properties: hist.step holds facts about the last   *)
(* step, the other fields facts about the run so far.  Disturbed(w, keys)  *)
(* notes that entries of keys were written or removed: a cache read or an  *)
(* unregister that is still under way no longer has them to itself.        *)
(***************************************************************************)
Note(w, name, v) == [w EXCEPT !.hist.step = SetProp(@, name, v)]

\* F(x), with x evaluated once however often F refers to it.
Bind(x, F(_)) == CHOOSE r \in {F(v) : v \in {x}} : TRUE

\* What the history holds of the update cycle under way: how many times
\* (2: twice or more) updateNext selected each key, and the keys whose
\* content was written to the cache.
NoCycle == [selected |-> [k \in AssetKeys |-> 0], written |-> {}]

\* cacheStorage.set({ <registry> }).  The stored registries are read once,
\* when they are loaded, and nothing reads back in the same run what is
\* stored later: the model keeps the fact that the registry was stored.
Stored(w, name) ==
    Note(w, "stored", (IF Has(w.hist.step, "stored") THEN w.hist.step.stored ELSE {})
                      \cup {name})

Disturbed(w, keys) ==
    [w EXCEPT
        !.tasks = [i \in DOMAIN @ |->
            IF @[i].assetKey \in keys /\ Has(@[i], "undisturbed")
            THEN [@[i] EXCEPT !.undisturbed = FALSE] ELSE @[i]],
        !.removing = [i \in DOMAIN @ |->
            IF @[i].removedEntries \cap keys # {}
            THEN [@[i] EXCEPT !.undisturbed = FALSE] ELSE @[i]]]

(***************************************************************************)
(* The asset source registry.                                              *)
(***************************************************************************)
\* A dictionary handed to registerAssetSource: the properties with a value,
\* those given as undefined and those given as null.  The value of
\* contentURL is a string, an array or something else.
Dict(set, undef, null) == [set |-> set, undef |-> undef, null |-> null]
StringURL(url) == [type |-> "string", url |-> url]
ArrayURL(urls) == [type |-> "array", urls |-> urls]
OtherURL == [type |-> "other"]

RemoteURLCount(contentURL) ==
    Cardinality({i \in DOMAIN contentURL : reIsExternalPath(contentURL[i])})

saveAssetSourceRegistry(w, lazily) ==
    IF lazily THEN [w EXCEPT !.sourceSaveTimer = TRUE]
    ELSE Stored([w EXCEPT !.sourceSaveTimer = FALSE], "assetSourceRegistry")

registerAssetSource(w, assetKey, newDict) ==
    LET registry == w.assetSourceRegistry
        currentDict0 == IF assetKey \in DOMAIN registry
                        THEN registry[assetKey] ELSE EmptyObject
        \* for ( const [ k, v ] of Object.entries(newDict) )
        currentDict1 ==
            [p \in (DOMAIN currentDict0 \cup DOMAIN newDict.set)
                     \ (newDict.undef \cup newDict.null) |->
                IF p \in DOMAIN newDict.set THEN newDict.set[p]
                ELSE currentDict0[p]]
        given == "contentURL" \in DOMAIN newDict.set \cup newDict.null
        contentURL ==
            IF "contentURL" \in DOMAIN newDict.set
            THEN LET v == newDict.set.contentURL
                 IN  CASE v.type = "string" -> <<v.url>>
                       [] v.type = "array" -> v.urls
                       [] OTHER -> <<>>
            ELSE <<>>
        remoteURLCount == RemoteURLCount(contentURL)
        currentDict2 ==
            IF given
            THEN SetProp(SetProp(SetProp(currentDict1,
                    "contentURL", contentURL),
                    "hasLocalURL", remoteURLCount # Len(contentURL)),
                    "hasRemoteURL", remoteURLCount # 0)
            ELSE IF ~Has(currentDict1, "contentURL")
            THEN SetProp(currentDict1, "contentURL", <<>>)
            ELSE currentDict1
        currentDict3 ==
            IF Has(currentDict2, "submitter")
            THEN SetProp(currentDict2, "submitTime", w.now)
            ELSE currentDict2
    IN  [w EXCEPT !.assetSourceRegistry = SetProp(registry, assetKey, currentDict3)]

\* assets.registerAssetSource, after its await of the registry.
assetsRegisterAssetSource(w, assetKey, details) ==
    saveAssetSourceRegistry(
        registerAssetSource(Disturbed(w, {assetKey}), assetKey, details), TRUE)

(***************************************************************************)
(* The asset cache registry and the content it describes.                  *)
(***************************************************************************)
saveAssetCacheRegistry(w, lazily) ==
    IF lazily THEN [w EXCEPT !.cacheSaveTimer = TRUE]
    ELSE Stored([w EXCEPT !.cacheSaveTimer = FALSE], "assetCacheRegistry")

\* cacheStorage.set({ [`cache/${assetKey}`]: content })
StoreContent(cache, assetKey, content) == SetProp(cache, assetKey, content)

\* cacheStorage.remove(removedContent)
RemoveContent(cache, removedEntries) == DeleteProps(cache, removedEntries)

\* What assetCacheRemove is called with: a string, a regular expression
\* (given by the keys it matches) or an array.
StringPattern(assetKey) == [type |-> "string", key |-> assetKey]
RegExpPattern(keys) == [type |-> "regexp", keys |-> keys]
ArrayPattern(keys) == [type |-> "array", keys |-> keys]

\* A loop that passes every entry over.
MatchesNothing(pattern, assetKey) == FALSE

\* The entries the loop of assetCacheRemove does not `continue` past.
RemoveMatches(pattern, assetKey) ==
    /\ ~(pattern.type = "regexp" /\ assetKey \notin pattern.keys)
    /\ ~(pattern.type = "string" /\ assetKey # pattern.key)

\* assetCacheRemove up to its await of cacheStorage: the entries are
\* deleted, the removal of their content is under way.  origin tells the
\* properties who called.
assetCacheRemove(w, pattern, origin) ==
    LET cacheDict == w.assetCacheRegistry
        removedEntries == {k \in DOMAIN cacheDict : RemoveMatches(pattern, k)}
        w1 == [Disturbed(w, removedEntries) EXCEPT
                 !.tasks = Detach(@, "cacheDetails", cacheDict, removedEntries),
                 !.assetCacheRegistry = DeleteProps(cacheDict, removedEntries)]
    IN  IF removedEntries = {}
        THEN Note(w1, "removed", [origin |-> origin, pattern |-> pattern,
                                  keys |-> {}, undisturbed |-> TRUE])
        ELSE Stored([w1 EXCEPT
                 !.cacheStorage.cache = RemoveContent(@, removedEntries),
                 !.removing = Append(@, [removedEntries |-> removedEntries,
                                         origin |-> origin, pattern |-> pattern,
                                         undisturbed |-> TRUE]),
                 !.hist.written = [k \in DOMAIN @ |->
                                     IF k \in removedEntries THEN "" ELSE @[k]]],
                    "assetCacheRegistry")

RECURSIVE fireEach(_, _, _)
fireEach(w, topic, keys) ==
    IF keys = <<>> THEN w
    ELSE fireEach(fireNotification(w, topic, [assetKey |-> Head(keys)]),
                  topic, Tail(keys))

\* assetCacheRemove after its await: one notification per removed entry.
assetCacheRemoved(w, i) ==
    LET call == w.removing[i]
        w1 == [w EXCEPT !.removing = RemoveAt(@, i)]
        w2 == fireEach(w1, "after-asset-updated", KeysInOrder(call.removedEntries))
    IN  Note(w2, "removed", [origin |-> call.origin, pattern |-> call.pattern,
                             keys |-> call.removedEntries,
                             undisturbed |-> call.undisturbed])

\* assetCacheWrite(assetKey, details): details is an object, or a string
\* given here as [content |-> string].
assetCacheWrite(w, assetKey, options) ==
    LET content == IF Has(options, "content") THEN options.content ELSE ""
    IN  IF content = ""
        THEN assetCacheRemove(w, StringPattern(assetKey), "write")
        ELSE
        LET cacheDict == w.assetCacheRegistry
            entry0 == IF assetKey \in DOMAIN cacheDict
                      THEN cacheDict[assetKey] ELSE EmptyObject
            entry1 == SetProp(SetProp(entry0, "writeTime", w.now), "readTime", w.now)
            entry2 == SetProp(entry1, "resourceTime",
                        IF Has(options, "resourceTime") THEN options.resourceTime ELSE 0)
            entry3 == IF Has(options, "url")
                      THEN SetProp(entry2, "remoteURL", options.url) ELSE entry2
            registry == SetProp(cacheDict, assetKey, entry3)
            w1 == Stored([Disturbed(w, {assetKey}) EXCEPT
                     !.assetCacheRegistry = registry,
                     !.cacheStorage.cache = StoreContent(@, assetKey, content),
                     !.hist.written = IF assetKey \in DOMAIN @
                                      THEN [@ EXCEPT ![assetKey] = content] ELSE @,
                     !.hist.cycle.written =
                        IF w.updaterStatus = "updating" THEN @ \cup {assetKey} ELSE @],
                         "assetCacheRegistry")
            result == [assetKey |-> assetKey, content |-> content]
        IN  IF Has(options, "silent") /\ options.silent
            THEN w1
            ELSE fireNotification(w1, "after-asset-updated", result)

\* A setter that leaves the entry as it is.
detailsNotSet(w, assetKey, details, fields) == w

\* assetCacheSetDetails(assetKey, details): details gives values to some of
\* fields and undefined to the others.
assetCacheSetDetails(w, assetKey, details, fields) ==
    LET cacheDict == w.assetCacheRegistry
    IN  IF assetKey \notin DOMAIN cacheDict THEN w
        ELSE
        LET entry == cacheDict[assetKey]
            changed == [p \in (DOMAIN entry \ fields) \cup DOMAIN details |->
                           IF p \in DOMAIN details THEN details[p] ELSE entry[p]]
        IN  IF changed = entry THEN w
            ELSE saveAssetCacheRegistry(
                    [w EXCEPT !.assetCacheRegistry = SetProp(cacheDict, assetKey, changed)],
                    FALSE)

unregisterAssetSource(w, assetKey) ==
    LET w1 == assetCacheRemove(w, StringPattern(assetKey), "unregister")
    IN  [w1 EXCEPT
            !.tasks = Detach(@, "assetDetails", w1.assetSourceRegistry, {assetKey}),
            !.assetSourceRegistry = DeleteProp(@, assetKey)]

\* assets.unregisterAssetSource, after its await of the registry.
assetsUnregisterAssetSource(w, assetKey) ==
    saveAssetSourceRegistry(unregisterAssetSource(w, assetKey), TRUE)

(***************************************************************************)
(* assets.get.                                                             *)
(***************************************************************************)
Returned(w, op, details) == [w EXCEPT !.ret = SetProp(@, op, details)]

\* An assignment that is lost.
assignsNothing(w, assetKey, ref, prop, v, defined) == w

\* Assign prop of the object ref refers to (undefined deletes it here: a
\* property that is undefined reads like one that is absent).
Assign(w, assetKey, ref, prop, v, defined) ==
    IF ref.ref = "registry"
    THEN [w EXCEPT !.assetSourceRegistry[assetKey] =
            IF defined THEN SetProp(@, prop, v) ELSE DeleteProp(@, prop)]
    ELSE w

\* reportBack of assets.get.
getReportBack(w, task, content, url, err) ==
    LET assetKey == task.assetKey
        w1 == Assign(w, assetKey, task.assetDetails, "lastError", err, err # "undefined")
        details0 == [assetKey |-> assetKey, content |-> content]
        details1 == IF err # "undefined" THEN SetProp(details0, "error", err)
                    ELSE details0
        cached == w1.assetCacheRegistry
        details2 ==
            IF Has(task.options, "needSourceURL")
            THEN LET d == IF /\ url = ""
                             /\ assetKey \in DOMAIN cached
                             /\ Has(cached[assetKey], "remoteURL")
                          THEN SetProp(details1, "sourceURL", cached[assetKey].remoteURL)
                          ELSE details1
                 IN  IF url # "" /\ reIsExternalPath(url)
                     THEN SetProp(d, "sourceURL", url) ELSE d
            ELSE details1
    IN  Returned(w1, "get", details2)

\* A loop that skips no URL.
skipsNothing(urls, hasLocalURL) == urls

\* The head of the loop over contentURLs: the URLs of `urls` are passed over
\* up to the first one that is fetched.
RECURSIVE getSkip(_, _)
getSkip(urls, hasLocalURL) ==
    IF urls = <<>> THEN <<>>
    ELSE IF reIsExternalPath(Head(urls)) /\ hasLocalURL
    THEN getSkip(Tail(urls), hasLocalURL)
    ELSE urls

\* The loop of assets.get from the URLs not yet tried: the call suspends on
\* the fetch of the next URL, or, with none left, records the error and
\* returns it.
getLoop(w, i, urls) ==
    LET task == w.tasks[i]
        assetKey == task.assetKey
        assetDetails == Deref(w.assetSourceRegistry, assetKey, task.assetDetails)
        left == getSkip(urls,
                    Has(assetDetails, "hasLocalURL") /\ assetDetails.hasLocalURL)
    IN  IF left # <<>>
        THEN [w EXCEPT !.tasks[i] =
                [task EXCEPT !.pc = "fetch", !.url = Head(left), !.urls = Tail(left),
                    !.fetcher = IF Has(assetDetails, "content")
                                   /\ assetDetails.content = "filters"
                                THEN "fetchFilterList" ELSE "fetchText"]]
        ELSE LET w1 == IF assetKey \in DOMAIN w.assetSourceRegistry
                       THEN registerAssetSource(w, assetKey,
                                Dict([error |-> [time |-> w.now, error |-> task.error]],
                                     {}, {}))
                       ELSE w
                 w2 == getReportBack(w1, task, "", "", task.error)
             IN  [w2 EXCEPT !.tasks = RemoveAt(@, i)]

\* assets.get up to its await of cacheStorage in assetCacheRead.
getCalled(w, assetKey, options) ==
    [w EXCEPT !.tasks = Append(@,
        [op |-> "get", pc |-> "read", assetKey |-> assetKey, options |-> options,
         bin |-> IF assetKey \in DOMAIN w.cacheStorage.cache
                 THEN [content |-> w.cacheStorage.cache[assetKey]]
                 ELSE EmptyObject,
         assetDetails |-> Own(EmptyObject),
         url |-> "", urls |-> <<>>, fetcher |-> "", error |-> "ENOTFOUND",
         written |-> IF assetKey \in DOMAIN w.hist.written
                     THEN w.hist.written[assetKey] ELSE "",
         undisturbed |-> TRUE])]

\* readUserAsset: the content the settings storage holds for the key, ''
\* when it holds none.
readUserAsset(w, assetKey) ==
    Returned(w, "get",
             [assetKey |-> assetKey,
              content |-> IF assetKey \in DOMAIN w.storage
                          THEN w.storage[assetKey] ELSE ""])

\* saveUserAsset
saveUserAsset(w, assetKey, content) ==
    Returned([w EXCEPT !.storage = SetProp(@, assetKey, content)], "put",
             [assetKey |-> assetKey, content |-> content])

\* assets.get(assetKey, options) up to its first await
assetsGet(w, assetKey, options) ==
    IF assetKey = userFiltersPath THEN readUserAsset(w, assetKey)
    ELSE getCalled(w, assetKey, options)

\* assets.put(assetKey, content): a write of '' to the cache returns when
\* the removal it starts ends.
assetsPut(w, assetKey, content) ==
    IF reIsUserAsset(assetKey) THEN saveUserAsset(w, assetKey, content)
    ELSE LET w1 == assetCacheWrite(w, assetKey, [content |-> content])
         IN  IF content = "" THEN w1
             ELSE Returned(w1, "put", [assetKey |-> assetKey, content |-> content])

\* /^(?:compiled|selfie)\//.test(assetKey) === false
updateReadTimeOf(assetKey) == assetKey \in AssetKeys \cup UserKeys \cup ExternalURLs

\* A report that finds nothing whatever was read.
readReportsNothing(assetKey, content) ==
    [assetKey |-> assetKey, content |-> "", error |-> "ENOTFOUND"]

\* A report that never tells of an error.
readReportsNoError(assetKey, content) == [assetKey |-> assetKey, content |-> content]

\* reportBack of assetCacheRead.
readReportBack(assetKey, content) ==
    IF content = ""
    THEN [assetKey |-> assetKey, content |-> "", error |-> "ENOTFOUND"]
    ELSE [assetKey |-> assetKey, content |-> content]

\* A read that stamps the entry as written, too.
readStampsWriteTime(entry, time) ==
    SetProp(SetProp(entry, "readTime", time), "writeTime", time)

\* entry.readTime = Date.now()
readTimeSet(entry, time) == SetProp(entry, "readTime", time)

\* assetCacheRead after its await, then assets.get up to its first fetch.
getRead(w, i) ==
    LET task == w.tasks[i]
        assetKey == task.assetKey
        hit == Has(task.bin, "content") /\ assetKey \in DOMAIN w.assetCacheRegistry
        w1 == IF hit
              THEN LET w0 == [w EXCEPT !.assetCacheRegistry[assetKey] =
                                        readTimeSet(@, w.now)]
                   IN  IF updateReadTimeOf(assetKey)
                       THEN saveAssetCacheRegistry(w0, TRUE) ELSE w0
              ELSE w
        details == readReportBack(assetKey, IF hit THEN task.bin.content ELSE "")
        w2 == Note(Returned(w1, "assetCacheRead", details), "read",
                   [written |-> task.written, undisturbed |-> task.undisturbed])
    IN  IF details.content # ""
        THEN [getReportBack(w2, task, details.content, "", "undefined")
                EXCEPT !.tasks = RemoveAt(@, i)]
        ELSE
        LET assetRegistry == w2.assetSourceRegistry
            known == assetKey \in DOMAIN assetRegistry
            entry == IF known THEN assetRegistry[assetKey] ELSE EmptyObject
            \* assetDetails is {} when the branch is taken: an entry of
            \* the registry has a contentURL.
            byKey == ~Has(entry, "contentURL") /\ reIsExternalPath(assetKey)
            contentURLs ==
                (IF Has(entry, "contentURL") THEN entry.contentURL
                 ELSE IF byKey THEN <<assetKey>> ELSE <<>>)
                \o (IF Has(entry, "cdnURLs") THEN entry.cdnURLs ELSE <<>>)
            w3 == [w2 EXCEPT !.tasks[i].assetDetails =
                        IF known THEN InRegistry
                        ELSE Own(IF byKey THEN [content |-> "filters"]
                                 ELSE EmptyObject)]
        IN  getLoop(Note(w3, "missed", i), i, contentURLs)

\* assets.get when the fetch of task.url has settled with `details`.
getFetched(w, i, details) ==
    LET task == w.tasks[i]
        assetKey == task.assetKey
        contentURL == task.url
        w0 == Note(Note(w, "fetched",
                        IF Has(details, "resourceTime") THEN details.resourceTime ELSE 0),
                   "got", [task |-> i, content |-> details.content,
                           error |-> IF Has(details, "error") THEN details.error
                                     ELSE "undefined"])
        w1 == IF Has(details, "error")
              THEN [w0 EXCEPT !.tasks[i].error = details.error] ELSE w0
    IN  IF details.content = "" THEN getLoop(w1, i, task.urls)
        ELSE
        LET dontCache == Has(task.options, "dontCache") /\ task.options.dontCache
            silent == Has(task.options, "silent") /\ task.options.silent
            w2 == IF reIsExternalPath(contentURL) /\ ~dontCache
                  THEN registerAssetSource(
                          Note(assetCacheWrite(w1, assetKey,
                                   [content |-> details.content, url |-> contentURL,
                                    silent |-> silent]),
                               "cached", assetKey),
                          assetKey, Dict(EmptyObject, {"error"}, {}))
                  ELSE w1
            w3 == getReportBack(w2, w1.tasks[i], details.content, contentURL, "undefined")
        IN  [w3 EXCEPT !.tasks = RemoveAt(@, i)]

(***************************************************************************)
(* getRemote.                                                              *)
(***************************************************************************)
\* What the properties compare of the cached copy of a key: the content
\* in the storage and the entry's resourceTime and remoteURL.
CachedView(cache, registry, assetKey) ==
    [content |-> IF assetKey \in DOMAIN cache
                 THEN [content |-> cache[assetKey]] ELSE EmptyObject,
     entry |-> IF assetKey \in DOMAIN registry
               THEN [p \in DOMAIN registry[assetKey] \cap {"resourceTime", "remoteURL"} |->
                        registry[assetKey][p]]
               ELSE EmptyObject]

ViewOf(w, assetKey) == CachedView(w.cacheStorage.cache, w.assetCacheRegistry, assetKey)

\* The outcome of the loop `for ( let i = 0 ... ) [cdnURLs[j], cdnURLs[i]] = ...`
\* over at most two CDN URLs: the list as it was, or reversed.
Shuffled(cdnURLs, reversed) ==
    IF reversed THEN [i \in DOMAIN cdnURLs |-> cdnURLs[Len(cdnURLs) + 1 - i]]
    ELSE cdnURLs

\* contentURLs of getRemote.
remoteContentURLs(assetDetails, friendly, reversed) ==
    LET contentURLs == IF Has(assetDetails, "contentURL")
                       THEN assetDetails.contentURL ELSE <<>>
    IN  IF Has(assetDetails, "cdnURLs")
        THEN LET cdnURLs == Shuffled(assetDetails.cdnURLs, reversed)
             IN  IF friendly THEN cdnURLs \o contentURLs
                 ELSE contentURLs \o cdnURLs
        ELSE contentURLs

(***************************************************************************)
(* assets.json.  A body that is a JSON text is given by what JSON.parse    *)
(* makes of it: an object whose members are objects or null, or a number.  *)
(* Any other body is not JSON and JSON.parse throws.                       *)
(*   "J1"  {"assets.json":{...},"k3":{...}}                                *)
(*   "J2"  {"k1":{...,"off":true}}                                         *)
(*   "J3"  {"k1":null,"k3":{...}}                                          *)
(*   "J4"  7                                                               *)
(***************************************************************************)
JsonNull == [type |-> "null"]
JsonNumber == [type |-> "number"]
JsonObject(members) == [type |-> "object", members |-> members]
JsonEntry(set) == [type |-> "object", dict |-> Dict(set, {}, {})]

JsonValues ==
    [J1 |-> JsonObject(
               ("assets.json" :> JsonEntry([content |-> "internal",
                                            contentURL |-> StringURL("https://a/1"),
                                            updateAfter |-> 1]))
               @@ ("k3" :> JsonEntry([content |-> "filters",
                                      contentURL |-> StringURL("https://a/2")]))),
     J2 |-> JsonObject(
               "k1" :> JsonEntry([content |-> "filters",
                                  contentURL |-> ArrayURL(<<"https://a/2">>),
                                  off |-> TRUE])),
     J3 |-> JsonObject(
               ("k1" :> JsonNull)
               @@ ("k3" :> JsonEntry([content |-> "filters",
                                      contentURL |-> StringURL("https://a/2")]))),
     J4 |-> JsonNumber]

JsonTexts == DOMAIN JsonValues

\* JSON.parse(json): the value, or the fact that it threw.
JSONparse(json) ==
    IF json \in JsonTexts THEN [ok |-> TRUE, value |-> JsonValues[json]]
    ELSE [ok |-> FALSE]

\* newDict['assets.json'].defaultListset = ...: the keys of the filter lists
\* that are not off.  The statement throws, and leaves newDict as parsed,
\* when there is no member 'assets.json' or when a member is null.
withDefaultListset(members) ==
    IF \/ "assets.json" \notin DOMAIN members
       \/ \E k \in DOMAIN members : members[k].type # "object"
    THEN members
    ELSE LET listed(k) == /\ Has(members[k].dict.set, "content")
                          /\ members[k].dict.set.content = "filters"
                          /\ ~Has(members[k].dict.set, "off")
             defaultListset == SelectSeq(KeysInOrder(DOMAIN members), listed)
         IN  [members EXCEPT !["assets.json"].dict.set =
                                SetProp(@, "defaultListset", defaultListset)]

\* An obsolete entry however it was submitted.
obsoleteAny(newDict, oldDict, assetKey) == assetKey \notin DOMAIN newDict

\* newDict[assetKey] === undefined && oldDict[assetKey].submitter === undefined
obsoleteBuiltin(newDict, oldDict, assetKey) ==
    /\ assetKey \notin DOMAIN newDict
    /\ ~Has(oldDict[assetKey], "submitter")

\* for ( const assetKey in oldDict ): oldDict is assetSourceRegistry itself.
RECURSIVE unregisterObsolete(_, _, _)
unregisterObsolete(w, assetKeys, newDict) ==
    IF assetKeys = <<>> THEN w
    ELSE LET assetKey == Head(assetKeys)
             w1 == IF obsoleteBuiltin(newDict, w.assetSourceRegistry, assetKey)
                   THEN unregisterAssetSource(w, assetKey) ELSE w
         IN  unregisterObsolete(w1, Tail(assetKeys), newDict)

\* for ( const assetKey in newDict ): registerAssetSource throws at
\* Object.entries(null), and the loop ends there.
RECURSIVE registerEach(_, _, _, _)
registerEach(w, assetKeys, newDict, silent) ==
    IF assetKeys = <<>> THEN [w |-> w, threw |-> FALSE]
    ELSE LET assetKey == Head(assetKeys)
             entry == newDict[assetKey]
             w1 == IF assetKey \notin DOMAIN w.assetSourceRegistry /\ ~silent
                   THEN fireNotification(w, "builtin-asset-source-added",
                                         [assetKey |-> assetKey, entry |-> entry])
                   ELSE w
         IN  IF entry.type # "object" THEN [w |-> w1, threw |-> TRUE]
             ELSE registerEach(registerAssetSource(w1, assetKey, entry.dict),
                               Tail(assetKeys), newDict, silent)

\* The world after the call, and whether the call threw.
updateAssetSourceRegistry(w, json, silent) ==
    LET parsed == JSONparse(json)
    IN  IF ~parsed.ok \/ parsed.value.type # "object"
        THEN [w |-> w, threw |-> FALSE]
        ELSE
        LET newDict == withDefaultListset(parsed.value.members)
            oldDict == w.assetSourceRegistry
            w1 == fireNotification(Disturbed(w, DOMAIN oldDict \cup DOMAIN newDict),
                                   "assets.json-updated",
                                   [newDict |-> newDict, oldDict |-> oldDict])
            w2 == unregisterObsolete(w1, KeysInOrder(DOMAIN oldDict), newDict)
            saved(done) ==
                LET w3 == IF done.threw THEN done.w
                          ELSE saveAssetSourceRegistry(done.w, FALSE)
                IN  [w |-> Note(w3, "sources",
                                [json |-> json, newDict |-> newDict,
                                 oldDict |-> oldDict,
                                 oldCached |-> DOMAIN w.assetCacheRegistry,
                                 threw |-> done.threw]),
                     threw |-> done.threw]
        IN  Bind(Bind(w2, LAMBDA v : registerEach(v, KeysInOrder(DOMAIN newDict),
                                                  newDict, silent)),
                 saved)

\* updaterTimer.on(updaterAssetDelay)
updaterTimerOn(w) == [w EXCEPT !.updaterTimer = TRUE]

\* updateNext after its await of getRemote.  µb.hiddenSettings.debugAssetsJson
\* is false, as it is by default.  When updateAssetSourceRegistry throws,
\* the promise of updateNext is rejected and the timer is not armed.
updateNextResumed(w, result) ==
    LET w1 == [w EXCEPT !.remoteServerFriendly = FALSE]
        w2 == IF Has(result, "error")
              THEN fireNotification(w1, "asset-update-failed",
                                    [assetKey |-> result.assetKey])
              ELSE [w1 EXCEPT !.updaterUpdated = Append(@, result.assetKey)]
        updated == IF /\ ~Has(result, "error")
                      /\ result.assetKey = "assets.json"
                      /\ result.content # ""
                   THEN updateAssetSourceRegistry(w2, result.content, FALSE)
                   ELSE [w |-> w2, threw |-> FALSE]
    IN  Bind(updated, LAMBDA u : IF u.threw THEN u.w ELSE updaterTimerOn(u.w))

\* reportBack of getRemote, then the caller's continuation.
remoteReportBack(w, i, content, err) ==
    LET task == w.tasks[i]
        assetKey == task.assetKey
        w1 == Assign(w, assetKey, w.tasks[i].assetDetails, "lastError", err, err # "")
        details == IF err # ""
                   THEN [assetKey |-> assetKey, content |-> content, error |-> err]
                   ELSE [assetKey |-> assetKey, content |-> content]
        w2 == Note(Returned(w1, "getRemote", details), "remote",
                   [assetKey |-> assetKey, stale |-> task.stale,
                    lastStale |-> task.lastStale,
                    entry |-> task.cacheDetails.ref = "registry"])
    IN  Bind([w2 EXCEPT !.tasks = RemoveAt(@, i)],
             LAMBDA v : updateNextResumed(v, details))

\* The head of the loop of getRemote: URLs that are not external are passed
\* over.
RECURSIVE remoteSkip(_)
remoteSkip(urls) ==
    IF urls = <<>> THEN <<>>
    ELSE IF ~reIsExternalPath(Head(urls)) THEN remoteSkip(Tail(urls))
    ELSE urls

\* The loop of getRemote from the URLs not yet tried: the call suspends on
\* the fetch of the next external URL, or leaves the loop.
remoteLoop(w, i, urls) ==
    LET task == w.tasks[i]
        assetKey == task.assetKey
        assetDetails == Deref(w.assetSourceRegistry, assetKey, task.assetDetails)
        cacheDetails == Deref(w.assetCacheRegistry, assetKey, task.cacheDetails)
        left == remoteSkip(urls)
    IN  IF left # <<>>
        THEN [w EXCEPT !.tasks[i] =
                [task EXCEPT !.url = Head(left), !.urls = Tail(left),
                    !.fetcher = IF Has(assetDetails, "content")
                                   /\ assetDetails.content = "filters"
                                THEN "fetchFilterList" ELSE "fetchText"]]
        ELSE IF task.error # "undefined"
        THEN remoteReportBack(
                registerAssetSource(w, assetKey,
                    Dict([error |-> [time |-> w.now, error |-> task.error]], {}, {})),
                i, "", "ENOTFOUND")
        ELSE LET w1 == IF task.stale
                       THEN assetCacheSetDetails(w, assetKey,
                                [writeTime |-> cacheDetails.resourceTime], {"writeTime"})
                       ELSE w
             IN  remoteReportBack(w1, i, "", "")

\* getRemote(assetKey), called by updateNext, up to its first fetch.
getRemote(w, assetKey, reversed) ==
    LET assetDetails == IF assetKey \in DOMAIN w.assetSourceRegistry
                        THEN w.assetSourceRegistry[assetKey] ELSE EmptyObject
        i == Len(w.tasks) + 1
        w1 == [w EXCEPT !.tasks = Append(@,
                [op |-> "getRemote", pc |-> "fetch", assetKey |-> assetKey,
                 assetDetails |-> IF assetKey \in DOMAIN w.assetSourceRegistry
                                  THEN InRegistry ELSE Own(EmptyObject),
                 cacheDetails |-> IF assetKey \in DOMAIN w.assetCacheRegistry
                                  THEN InRegistry ELSE Own(EmptyObject),
                 url |-> "", urls |-> <<>>, fetcher |-> "",
                 error |-> "undefined", stale |-> FALSE, lastStale |-> FALSE])]
    IN  remoteLoop(w1, i,
            remoteContentURLs(assetDetails, w.remoteServerFriendly, reversed))

\* The fetched copy carries a resource time, the cached entry one too, and
\* the fetched one is the smaller.
OlderThanCached(result, cacheDetails) ==
    /\ Has(result, "resourceTime") /\ result.resourceTime > 0
    /\ Has(cacheDetails, "resourceTime") /\ cacheDetails.resourceTime > 0
    /\ result.resourceTime < cacheDetails.resourceTime

\* getRemote when the fetch of task.url has settled with `result`.
remoteFetched(w, i, result) ==
    LET task == w.tasks[i]
        assetKey == task.assetKey
        contentURL == task.url
        assetDetails == Deref(w.assetSourceRegistry, assetKey, task.assetDetails)
        cacheDetails == Deref(w.assetCacheRegistry, assetKey, task.cacheDetails)
        before == ViewOf(w, assetKey)
        w0 == Note(w, "fetch", [assetKey |-> assetKey, before |-> before,
                                older |-> OlderThanCached(result, cacheDetails),
                                empty |-> ~stringIsNotEmpty(result.content)])
    IN  IF ~stringIsNotEmpty(result.content)
        THEN \* result.statusCode is never 0: assets.fetch reports
             \* `this.status || 200`.
             remoteLoop([w0 EXCEPT !.tasks[i].lastStale = FALSE,
                                   !.tasks[i].error =
                            IF Has(result, "statusText")
                            THEN result.statusText ELSE "undefined"],
                        i, task.urls)
        ELSE
        LET stale == resourceIsStale(result, cacheDetails)
            w1 == [w0 EXCEPT !.tasks[i].error = "undefined",
                             !.tasks[i].stale = stale,
                             !.tasks[i].lastStale = stale]
        IN  IF stale THEN remoteLoop(w1, i, task.urls)
            ELSE
            LET resourceTime == IF Has(result, "resourceTime")
                                THEN result.resourceTime ELSE 0
                entryBefore == IF assetKey \in DOMAIN w1.assetCacheRegistry
                               THEN w1.assetCacheRegistry[assetKey] ELSE EmptyObject
                w2 == registerAssetSource(w1, assetKey,
                          Dict(EmptyObject, {"birthtime", "error"}, {}))
                w3 == Assign(w2, assetKey, w2.tasks[i].assetDetails,
                             "lastError", "", FALSE)
                w4 == assetCacheWrite(w3, assetKey,
                          [content |-> result.content, url |-> contentURL,
                           resourceTime |-> resourceTime])
                w5 == IF Has(assetDetails, "content") /\ assetDetails.content = "filters"
                      THEN assetCacheSetDetails(w4, assetKey,
                              extractMetadataFromList(result.content, ListFields),
                              ListFields)
                      ELSE w4
                details == [assetKey |-> assetKey, content |-> result.content]
                w6 == Note(Returned(w5, "getRemote", details), "remoteWrite",
                           [assetKey |-> assetKey, entryBefore |-> entryBefore,
                            resourceTime |-> resourceTime,
                            entry |-> task.cacheDetails.ref = "registry"])
            IN  Bind([w6 EXCEPT !.tasks = RemoveAt(@, i)],
                     LAMBDA v : updateNextResumed(v, details))

(***************************************************************************)
(* The updater.                                                            *)
(***************************************************************************)
getWriteTime(w, assetKey) ==
    IF assetKey \in DOMAIN w.assetCacheRegistry
       /\ Has(w.assetCacheRegistry[assetKey], "writeTime")
    THEN w.assetCacheRegistry[assetKey].writeTime
    ELSE 0

\* An update-after time that does not look at the cache entry.
ignoresExpires(w, assetKey, diff) ==
    IF assetKey \in DOMAIN w.assetSourceRegistry
       /\ Has(w.assetSourceRegistry[assetKey], "updateAfter")
    THEN w.assetSourceRegistry[assetKey].updateAfter * MS_PER_DAY
    ELSE EXPIRES_DEFAULT * MS_PER_DAY

getUpdateAfterTime(w, assetKey, diff) ==
    LET cached == assetKey \in DOMAIN w.assetCacheRegistry
        entry == w.assetCacheRegistry[assetKey]
        known == assetKey \in DOMAIN w.assetSourceRegistry
        source == w.assetSourceRegistry[assetKey]
    IN  IF cached /\ diff /\ Has(entry, "diffExpires")
        THEN entry.diffExpires * MS_PER_DAY
        ELSE IF cached /\ Has(entry, "expires")
        THEN entry.expires * MS_PER_DAY
        ELSE IF known /\ Has(source, "updateAfter")
        THEN source.updateAfter * MS_PER_DAY
        ELSE EXPIRES_DEFAULT * MS_PER_DAY

\* toUpdate.sort((a, b) => ta - tb): keys in ascending order of the
\* writeTime of their cache entry (0 without one), ties as they were.
RECURSIVE InsertByTime(_, _, _)
InsertByTime(sorted, assetKey, time) ==
    IF sorted = <<>> THEN <<assetKey>>
    ELSE IF time[assetKey] < time[Head(sorted)]
    THEN <<assetKey>> \o sorted
    ELSE <<Head(sorted)>> \o InsertByTime(Tail(sorted), assetKey, time)

RECURSIVE SortByTime(_, _)
SortByTime(keys, time) ==
    IF keys = <<>> THEN <<>>
    ELSE LET n == Len(keys)
         IN  InsertByTime(SortByTime(SubSeq(keys, 1, n - 1), time), keys[n], time)

\* The loop of getUpdateCandidates over the source registry.
RECURSIVE candidatesLoop(_, _, _, _)
candidatesLoop(w, keys, toUpdate, unused) ==
    IF keys = <<>> THEN [w |-> w, toUpdate |-> toUpdate, unused |-> unused]
    ELSE
    LET assetKey == Head(keys)
        assetEntry == w.assetSourceRegistry[assetKey]
        cacheDict == w.assetCacheRegistry
        skip == \/ ~(Has(assetEntry, "hasRemoteURL") /\ assetEntry.hasRemoteURL)
                \/ assetKey \in w.updaterFetched
        details == IF Has(assetEntry, "content")
                   THEN [assetKey |-> assetKey, type |-> assetEntry.content]
                   ELSE [assetKey |-> assetKey]
        w1 == fireNotification(w, "before-asset-updated", details)
        selected == fireNotificationResult(w.observers, "before-asset-updated",
                                           details) = "true"
        collect == /\ assetKey \in DOMAIN cacheDict
                   /\ cacheDict[assetKey].readTime < assetCacheRegistryStartTime
    IN  IF skip THEN candidatesLoop(w, Tail(keys), toUpdate, unused)
        ELSE IF selected
        THEN candidatesLoop(w1, Tail(keys), Append(toUpdate, assetKey), unused)
        ELSE candidatesLoop(w1, Tail(keys), toUpdate,
                            IF collect THEN Append(unused, assetKey) ELSE unused)

\* The calls of assetCacheRemove that getUpdateCandidates made, which run
\* when its loop is over.
RECURSIVE removeEach(_, _)
removeEach(w, keys) ==
    IF keys = <<>> THEN w
    ELSE removeEach(assetCacheRemove(w, StringPattern(Head(keys)), "unused"),
                    Tail(keys))

getUpdateCandidates(w) ==
    LET sorted(found) ==
            LET cacheDict == found.w.assetCacheRegistry
                time == [assetKey \in Range(found.toUpdate) |->
                            IF assetKey \in DOMAIN cacheDict
                            THEN cacheDict[assetKey].writeTime ELSE 0]
            IN  [w |-> removeEach(found.w, found.unused),
                 toUpdate |-> SortByTime(found.toUpdate, time)]
        loop(v) == candidatesLoop(v, KeysInOrder(DOMAIN v.assetSourceRegistry),
                                  <<>>, <<>>)
    IN  Bind(Bind(w, loop), sorted)

updateDone(w) ==
    LET assetKeys == w.updaterUpdated
        w1 == [w EXCEPT !.updaterFetched = {},
                        !.updaterUpdated = <<>>,
                        !.updaterStatus = "undefined",
                        !.updaterAssetDelay = updaterAssetDelayDefault]
        w2 == Note(w1, "done", [assetKeys |-> assetKeys,
                                written |-> w.hist.cycle.written])
    IN  fireNotification([w2 EXCEPT !.hist.cycle = NoCycle],
                         "after-assets-updated", [assetKeys |-> assetKeys])

\* toHardUpdate.pop(): the key updateNext takes from the obsolete candidates.
Pop(toHardUpdate) == toHardUpdate[Len(toHardUpdate)]

\* A set that forgets the key.
MarkNothing(fetched, assetKey) == fetched

\* updaterFetched.add(assetKey)
MarkFetched(fetched, assetKey) == fetched \cup {assetKey}

updateNext(w, reversed) ==
    LET selectFrom(found) ==
            LET w1 == found.w
                obsolete(assetKey) ==
                    getWriteTime(w1, assetKey)
                        + getUpdateAfterTime(w1, assetKey, FALSE) <= w1.now
                toHardUpdate == SelectSeq(found.toUpdate, obsolete)
            IN  IF toHardUpdate = <<>> THEN updateDone(w1)
                ELSE
                LET assetKey == Pop(toHardUpdate)
                    w2 == [w1 EXCEPT !.updaterFetched = MarkFetched(@, assetKey),
                                     !.remoteServerFriendly = w1.updaterAuto,
                                     !.hist.cycle.selected =
                                        IF assetKey \in DOMAIN @
                                        THEN [@ EXCEPT ![assetKey] = Min(@ + 1, 2)]
                                        ELSE @]
                    w3 == Note(w2, "selected",
                               [assetKey |-> assetKey,
                                writeTime |-> getWriteTime(w1, assetKey),
                                obsolete |-> {getWriteTime(w1, toHardUpdate[j]) :
                                                 j \in DOMAIN toHardUpdate},
                                cached |-> assetKey \in DOMAIN w1.assetCacheRegistry,
                                entry |-> IF assetKey \in DOMAIN w1.assetCacheRegistry
                                          THEN w1.assetCacheRegistry[assetKey]
                                          ELSE EmptyObject,
                                source |-> w1.assetSourceRegistry[assetKey]])
                IN  Bind(w3, LAMBDA v : getRemote(v, assetKey, reversed))
    IN  Bind(getUpdateCandidates(w), selectFrom)

\* getAssetDiffDetails(assetKey): whether it returns a descriptor.
getAssetDiffDetails(w, assetKey) ==
    /\ assetKey \in DOMAIN w.assetCacheRegistry
    /\ Has(w.assetCacheRegistry[assetKey], "diffPath")
    /\ Has(w.assetCacheRegistry[assetKey], "diffName")
    /\ assetKey \in DOMAIN w.assetSourceRegistry
    /\ Has(w.assetSourceRegistry[assetKey], "cdnURLs")

\* diffUpdater up to `if ( toHardUpdate.length === 0 ) { return; }`: the
\* state it leaves and the keys it would patch.
diffUpdater(w) ==
    LET partition(found) ==
            LET w1 == found.w
                patchable == SelectSeq(found.toUpdate,
                                       LAMBDA k : getAssetDiffDetails(w1, k))
                soft(assetKey) ==
                    getWriteTime(w1, assetKey)
                        + getUpdateAfterTime(w1, assetKey, TRUE) > w1.now
                hard(assetKey) == ~soft(assetKey)
            IN  [w |-> w1, toHardUpdate |-> SelectSeq(patchable, hard),
                 toSoftUpdate |-> SelectSeq(patchable, soft)]
    IN  Bind(getUpdateCandidates(w), partition)

(***************************************************************************)
(* The diff phase: the promise diffUpdater returns when there is a hard    *)
(* candidate.  A phase is the closure of the promise's executor            *)
(* (toHardUpdate, toSoftUpdate, pendingOps, bc, worker) together with the  *)
(* worker's side of the channel: whether it has posted 'ready', and the    *)
(* descriptors it received and has not answered (inbox).  `reading` holds  *)
(* the calls of assetCacheRead made for 'needtext' that have not returned. *)
(***************************************************************************)
\* The descriptor getAssetDiffDetails returns, with what = 'update'.
diffDescriptor(w, assetKey) ==
    [name |-> assetKey, what |-> "update",
     diffName |-> w.assetCacheRegistry[assetKey].diffName,
     patchPath |-> w.assetCacheRegistry[assetKey].diffPath,
     cdnURLs |-> w.assetSourceRegistry[assetKey].cdnURLs]

diffPhase(w, toHardUpdate, toSoftUpdate) ==
    [toHardUpdate |-> [j \in DOMAIN toHardUpdate |-> diffDescriptor(w, toHardUpdate[j])],
     toSoftUpdate |-> [j \in DOMAIN toSoftUpdate |-> diffDescriptor(w, toSoftUpdate[j])],
     pendingOps |-> 0, bc |-> "open", worker |-> "running",
     ready |-> FALSE, inbox |-> {}, reading |-> {}]

\* The phases that are over leave the model: the channel is closed and no
\* read made for the worker is pending.
Retired(ds) == SelectSeq(ds, LAMBDA d : ~(d.bc = "closed" /\ d.reading = {}))

\* A terminate that does nothing.
terminatesNothing(w, i, reversed) == w

\* terminate(error): worker.terminate(), bc.close(), resolve(); the promise
\* of diffUpdater settles and the finally() of updateFirst calls updateNext.
terminate(w, i, reversed) ==
    LET w1 == Note(w, "terminate", w.diffs[i])
        w2 == [w1 EXCEPT !.diffs[i].worker = "terminated",
                         !.diffs[i].bc = "closed",
                         !.diffs[i].inbox = {},
                         !.diffUpdaterPending = @ - 1]
        w3 == Note(w2, "updateNext", [status |-> w2.updaterStatus, by |-> "diffUpdater"])
        w4 == Bind(w3, LAMBDA v : updateNext(v, reversed))
    IN  [w4 EXCEPT !.diffs = Retired(@)]

\* A count that an answer lowers by two.
countsTwice(pendingOps) == pendingOps - 2

\* pendingOps -= 1
opsAfterAnswer(pendingOps) == pendingOps - 1

\* A test that lets the soft descriptors go after any answer.
softDueAtOnce(pendingOps, toSoftUpdate) == toSoftUpdate # <<>>

\* pendingOps === 0 && toSoftUpdate.length !== 0
softDue(pendingOps, toSoftUpdate) == pendingOps = 0 /\ toSoftUpdate # <<>>

\* bc.onmessage after the tests for 'ready', 'broken' and 'needtext': the
\* worker is done with one descriptor.
diffReplied(w, i, data, reversed) ==
    LET updated == Has(data, "status") /\ data.status = "updated"
        metadata == extractMetadataFromList(data.text, ListFields)
        written ==
            IF updated
            THEN LET wa == assetCacheWrite(w, data.name,
                              [content |-> data.text,
                               resourceTime |-> IF Has(metadata, "lastModified")
                                                THEN metadata.lastModified ELSE 0])
                     wb == Bind(wa, LAMBDA v :
                              assetCacheSetDetails(v, data.name, metadata, ListFields))
                 IN  [wb EXCEPT !.updaterUpdated = Append(@, data.name)]
            ELSE w
        counted(w1) ==
            LET phase == w1.diffs[i]
                pendingOps == opsAfterAnswer(phase.pendingOps)
                soft == softDue(pendingOps, phase.toSoftUpdate)
            IN  IF soft
                THEN Note([w1 EXCEPT !.diffs[i].inbox = @ \cup Range(phase.toSoftUpdate),
                                     !.diffs[i].toSoftUpdate = <<>>,
                                     !.diffs[i].pendingOps =
                                          pendingOps + Len(phase.toSoftUpdate)],
                          "posted", phase.toSoftUpdate)
                ELSE [w1 EXCEPT !.diffs[i].pendingOps = pendingOps]
        ended(w2) == IF w2.diffs[i].pendingOps # 0 THEN w2
                     ELSE terminate(w2, i, reversed)
    IN  Bind(Bind(written, counted), ended)

\* What the handler posts at 'ready': every hard descriptor, fetch: true.
readyPosts(phase) ==
    [j \in DOMAIN phase.toHardUpdate |->
        SetProp(phase.toHardUpdate[j], "fetch", TRUE)]

\* bc.onmessage = ev => { ... } of phase i, for ev.data = data.
onmessage(w, i, data, reversed) ==
    LET phase == w.diffs[i]
    IN  IF Has(data, "what") /\ data.what = "ready"
        THEN LET posted == readyPosts(phase)
             IN  Note([w EXCEPT !.diffs[i].inbox = @ \cup Range(posted),
                                !.diffs[i].toHardUpdate = <<>>,
                                !.diffs[i].pendingOps = @ + Len(posted)],
                      "posted", posted)
        ELSE IF Has(data, "what") /\ data.what = "broken"
        THEN terminate(w, i, reversed)
        ELSE IF Has(data, "status") /\ data.status = "needtext"
        THEN [w EXCEPT !.diffs[i].reading = @ \cup
                {[data |-> data,
                  bin |-> IF data.name \in DOMAIN w.cacheStorage.cache
                          THEN [content |-> w.cacheStorage.cache[data.name]]
                          ELSE EmptyObject]}]
        ELSE diffReplied(w, i, data, reversed)

\* assetCacheRead(data.name).then(result => { ... }) of the 'needtext'
\* branch: the read returns and the text is posted, unless the channel was
\* closed meanwhile (postMessage then throws).
diffTextRead(w, i, read) ==
    LET data == read.data
        assetKey == data.name
        hit == Has(read.bin, "content") /\ assetKey \in DOMAIN w.assetCacheRegistry
        w1 == IF hit
              THEN [w EXCEPT !.assetCacheRegistry[assetKey] = readTimeSet(@, w.now)]
              ELSE w
        result == readReportBack(assetKey, IF hit THEN read.bin.content ELSE "")
        answer == SetProp(DeleteProp(data, "status"), "text", result.content)
        w2 == [w1 EXCEPT !.diffs[i].reading = @ \ {read}]
        w3 == IF w2.diffs[i].bc = "open"
              THEN Note([w2 EXCEPT !.diffs[i].inbox = @ \cup {answer}],
                        "posted", <<answer>>)
              ELSE w2
    IN  [w3 EXCEPT !.diffs = Retired(@)]

\* updateFirst.  Without a hard candidate diffUpdater returns at once and
\* updateNext follows in the same run; with one, the diff phase starts.
updateFirst(w, reversed) ==
    LET w1 == [w EXCEPT !.updaterStatus = "updating",
                        !.updaterFetched = {},
                        !.updaterUpdated = <<>>,
                        !.hist.cycle = NoCycle]
        started(diff) ==
            IF diff.toHardUpdate = <<>> THEN updateNext(diff.w, reversed)
            ELSE [diff.w EXCEPT !.diffUpdaterPending = @ + 1,
                                !.diffs = Append(@, diffPhase(diff.w, diff.toHardUpdate,
                                                              diff.toSoftUpdate))]
    IN  Bind(diffUpdater(w1), started)

\* assets.updateStart(details)
updateStart(w, details, reversed) ==
    LET oldUpdateDelay == w.updaterAssetDelay
        newUpdateDelay == IF Has(details, "delay") THEN details.delay
                          ELSE updaterAssetDelayDefault
        w1 == [w EXCEPT !.updaterAssetDelay = Min(oldUpdateDelay, newUpdateDelay),
                        !.updaterAuto = Has(details, "auto") /\ details.auto]
    IN  IF w.updaterStatus # "undefined"
        THEN IF newUpdateDelay < oldUpdateDelay THEN updaterTimerOn(w1) ELSE w1
        ELSE updateFirst(w1, reversed)

\* assets.updateStop()
updateStop(w) ==
    LET w1 == [w EXCEPT !.updaterTimer = FALSE]
    IN  IF w.updaterStatus # "undefined" THEN updateDone(w1) ELSE w1

(***************************************************************************)
(* The initial state: the module has been evaluated, nothing was called.   *)
(* The cache storage holds what earlier runs of the program left there.    *)
(***************************************************************************)
\* Source entries as registerAssetSource leaves them.
SourceEntry(contentURL, more) ==
    LET w == registerAssetSource(
                [assetSourceRegistry |-> EmptyObject, now |-> 0], "k",
                Dict([p \in DOMAIN more \cup {"contentURL"} |->
                        IF p = "contentURL" THEN ArrayURL(contentURL) ELSE more[p]],
                     {}, {}))
    IN  w.assetSourceRegistry["k"]

StoredSourceRegistries ==
    { [k1 |-> SourceEntry(<<"https://a/1">>, [content |-> "filters", updateAfter |-> 1]),
       k2 |-> SourceEntry(<<"https://a/2">>,
                          [content |-> "filters", cdnURLs |-> <<"https://cdn/1">>])],
      [k1 |-> SourceEntry(<<"assets/local.txt", "https://a/1">>, [content |-> "filters"]),
       k2 |-> SourceEntry(<<"https://a/2">>, [content |-> "text", updateAfter |-> 1])] }

CacheEntry(writeTime, readTime, resourceTime, remoteURL) ==
    [writeTime |-> writeTime, readTime |-> readTime,
     resourceTime |-> resourceTime, remoteURL |-> remoteURL]

\* The cache registry and the content stored with it.
StoredCaches ==
    { [assetCacheRegistry |-> EmptyObject, cache |-> EmptyObject],
      [assetCacheRegistry |->
          [k1 |-> CacheEntry(6, 6, 2, "https://a/1"),
           k2 |-> CacheEntry(5, 5, 0, "https://a/2")],
       cache |-> [k1 |-> "B2", k2 |-> "A"]] }

\* The source registry the runs of the updater start from.
UpdaterSourceRegistries ==
    { [k1 |-> SourceEntry(<<"https://a/1">>,
                          [content |-> "text", cdnURLs |-> <<"https://cdn/1">>,
                           updateAfter |-> 1]),
       k2 |-> SourceEntry(<<"assets/local.txt", "https://a/2">>,
                          [content |-> "filters", updateAfter |-> 1])] }

InitialObservers == {<<"selected">>, <<"logger", "selectedK1">>}

InitWith(storedSources, storedCaches, obs) ==
    /\ now = assetCacheRegistryStartTime
    /\ \E source \in storedSources, stored \in storedCaches :
         cacheStorage = [assetSourceRegistry |-> source,
                         assetCacheRegistry |-> stored.assetCacheRegistry,
                         cache |-> stored.cache]
    /\ storage = EmptyObject
    /\ assetSourceRegistryPromise = "undefined"
    /\ assetSourceRegistry = EmptyObject
    /\ sourceSaveTimer = FALSE
    /\ assetCacheRegistryPromise = "undefined"
    /\ assetCacheRegistry = EmptyObject
    /\ cacheSaveTimer = FALSE
    /\ observers \in obs
    /\ remoteServerFriendly = FALSE
    /\ updaterStatus = "undefined"
    /\ updaterFetched = {}
    /\ updaterUpdated = <<>>
    /\ updaterAssetDelay = updaterAssetDelayDefault
    /\ updaterAuto = FALSE
    /\ updaterTimer = FALSE
    /\ diffUpdaterPending = 0
    /\ diffs = <<>>
    /\ tasks = <<>>
    /\ removing = <<>>
    /\ calls = 0
    /\ fired = <<>>
    /\ ret = NoRet
    /\ hist = [step |-> EmptyObject, written |-> [k \in AssetKeys |-> ""],
               cycle |-> NoCycle]

(***************************************************************************)
(* The steps.                                                              *)
(***************************************************************************)
Loaded ==
    /\ assetSourceRegistryPromise = "resolved"
    /\ assetCacheRegistryPromise = "resolved"


Quiet ==
    /\ fired' = <<>>
    /\ ret' = NoRet
    /\ hist' = [hist EXCEPT !.step = EmptyObject]

\* The first call of getAssetSourceRegistry: cacheStorage.get is under way.
getAssetSourceRegistry ==
    /\ assetSourceRegistryPromise = "undefined"
    /\ assetSourceRegistryPromise' = "pending"
    /\ Quiet
    /\ UNCHANGED <<now, cacheStorage, storage, assetSourceRegistry, sourceSaveTimer,
                   assetCacheRegistryPromise, assetCacheRegistry, cacheSaveTimer,
                   observers, remoteServerFriendly, updaterStatus, updaterFetched,
                   updaterUpdated, updaterAssetDelay, updaterAuto, updaterTimer,
                   diffUpdaterPending, diffs, tasks, removing, calls>>

\* cacheStorage.get('assetSourceRegistry') settles with a stored registry.
SourceRegistryLoaded ==
    /\ assetSourceRegistryPromise = "pending"
    /\ assetSourceRegistryPromise' = "resolved"
    /\ assetSourceRegistry' = cacheStorage.assetSourceRegistry
    /\ Quiet
    /\ UNCHANGED <<now, cacheStorage, storage, sourceSaveTimer,
                   assetCacheRegistryPromise, assetCacheRegistry, cacheSaveTimer,
                   observers, remoteServerFriendly, updaterStatus, updaterFetched,
                   updaterUpdated, updaterAssetDelay, updaterAuto, updaterTimer,
                   diffUpdaterPending, diffs, tasks, removing, calls>>

\* The first call of getAssetCacheRegistry.
getAssetCacheRegistry ==
    /\ assetCacheRegistryPromise = "undefined"
    /\ assetCacheRegistryPromise' = "pending"
    /\ Quiet
    /\ UNCHANGED <<now, cacheStorage, storage, assetSourceRegistryPromise, assetSourceRegistry,
                   sourceSaveTimer, assetCacheRegistry, cacheSaveTimer,
                   observers, remoteServerFriendly, updaterStatus, updaterFetched,
                   updaterUpdated, updaterAssetDelay, updaterAuto, updaterTimer,
                   diffUpdaterPending, diffs, tasks, removing, calls>>

\* cacheStorage.get('assetCacheRegistry') settles: the registry in memory,
\* still empty, becomes the stored one.
CacheRegistryLoaded ==
    /\ assetCacheRegistryPromise = "pending"
    /\ assetCacheRegistryPromise' = "resolved"
    /\ assetCacheRegistry' =
          IF DOMAIN assetCacheRegistry = {}
          THEN cacheStorage.assetCacheRegistry ELSE assetCacheRegistry
    /\ Quiet
    /\ UNCHANGED <<now, cacheStorage, storage, assetSourceRegistryPromise, assetSourceRegistry,
                   sourceSaveTimer, cacheSaveTimer,
                   observers, remoteServerFriendly, updaterStatus, updaterFetched,
                   updaterUpdated, updaterAssetDelay, updaterAuto, updaterTimer,
                   diffUpdaterPending, diffs, tasks, removing, calls>>

\* The client may make one more call; the call is counted.
MayCall == Loaded /\ calls < MaxCalls

Called(w) == [w EXCEPT !.calls = @ + 1]

\* A day passes.  The days of a run count among its calls.
Tick ==
    /\ MayCall
    /\ now < assetCacheRegistryStartTime + MaxTicks
    /\ Commit([Called(World) EXCEPT !.now = now + 1])

\* The timer of saveAssetSourceRegistry fires.
SourceSaveTimerFires ==
    /\ sourceSaveTimer
    /\ Commit(saveAssetSourceRegistry(World, FALSE))

\* The timer of saveAssetCacheRegistry fires.
CacheSaveTimerFires ==
    /\ cacheSaveTimer
    /\ Commit(saveAssetCacheRegistry(World, FALSE))

\* assets.put(assetKey, content)
Put(assetKey, content) ==
    /\ MayCall
    /\ (content = "" /\ ~reIsUserAsset(assetKey)) => Len(removing) < MaxRemoving
    /\ Commit(assetsPut(Called(World), assetKey, content))

\* assets.remove(pattern) and assets.rmrf().
Remove(pattern) ==
    /\ MayCall
    /\ Len(removing) < MaxRemoving
    /\ Commit(assetCacheRemove(Called(World), pattern, "remove"))

\* cacheStorage has removed the content of the entries a call of
\* assetCacheRemove deleted.
Removed ==
    /\ removing # <<>>
    /\ Commit(assetCacheRemoved(World, 1))

RegisterAssetSource(assetKey, details) ==
    /\ MayCall
    /\ Commit(assetsRegisterAssetSource(Called(World), assetKey, details))

UnregisterAssetSource(assetKey) ==
    /\ MayCall
    /\ Len(removing) < MaxRemoving
    /\ Commit(assetsUnregisterAssetSource(Called(World), assetKey))

Get(assetKey, options) ==
    /\ MayCall
    /\ Len(tasks) < MaxTasks
    /\ Commit(assetsGet(Called(World), assetKey, options))

GetRead(i) ==
    /\ tasks[i].op = "get"
    /\ tasks[i].pc = "read"
    /\ Commit(getRead(World, i))

\* What a fetch by fetcher of url settles with, web giving the outcome of
\* each request: the details and, for a list, the run.
FetchRun(fetcher, url, web) ==
    IF fetcher = "fetchFilterList"
    THEN fetchFilterListRun(url, web)
    ELSE [details |-> fetchText(url, web[url])]

Fetchers == {"fetchFilterList", "fetchText"}

\* What the fetches can settle with, webs(url) being the webs of url.
FetchRuns(webs(_)) ==
    [fetcher \in Fetchers, url \in URLs |->
        {FetchRun(fetcher, url, web) : web \in webs(url)}]

\* The history notes the run of fetchFilterList that settled in the step.
Listed(w, task, run) ==
    IF Has(run, "fetched")
    THEN Note(w, "list", [assetKey |-> task.assetKey, url |-> task.url,
                          fetched |-> run.fetched, errors |-> run.errors,
                          details |-> run.details])
    ELSE w

\* The webs in which url answers in one of the ways of XhrOutcomes.
SimpleWebs(url) == {OnlyURL(url, xhr) : xhr \in XhrOutcomes}

SimpleRuns == FetchRuns(SimpleWebs)

\* The fetch a call of assets.get waits for settles.
GetFetched(i, runs) ==
    /\ tasks[i].op = "get"
    /\ tasks[i].pc = "fetch"
    /\ Len(removing) < MaxRemoving
    /\ \E run \in runs[tasks[i].fetcher, tasks[i].url] :
          Commit(getFetched(Listed(World, tasks[i], run), i, run.details))

PutContents == {"", "A", "B1"}

RemovePatterns == {StringPattern("k1"), RegExpPattern(AssetKeys)}

RegisterDetails ==
    { Dict([contentURL |-> StringURL("https://a/1"), content |-> "filters"], {}, {}),
      Dict([contentURL |-> ArrayURL(<<"assets/local.txt">>)], {"updateAfter"}, {}) }

GetOptions == {EmptyObject, [dontCache |-> TRUE]}

Init == InitWith(StoredSourceRegistries, StoredCaches, {<<"selected">>})

Next ==
    \/ getAssetSourceRegistry
    \/ SourceRegistryLoaded
    \/ getAssetCacheRegistry
    \/ CacheRegistryLoaded
    \/ SourceSaveTimerFires
    \/ CacheSaveTimerFires
    \/ \E assetKey \in AssetKeys, content \in PutContents : Put(assetKey, content)
    \/ \E pattern \in RemovePatterns : Remove(pattern)
    \/ Removed
    \/ \E assetKey \in AssetKeys, details \in RegisterDetails :
          RegisterAssetSource(assetKey, details)
    \/ \E assetKey \in AssetKeys : UnregisterAssetSource(assetKey)
    \/ \E assetKey \in AssetKeys, options \in GetOptions : Get(assetKey, options)
    \/ \E i \in DOMAIN tasks : GetRead(i)
    \/ \E i \in DOMAIN tasks : GetFetched(i, SimpleRuns)

Spec == Init /\ [][Next]_vars

(***************************************************************************)
(* The steps of the updater.                                               *)
(***************************************************************************)
\* The step leaves no more suspended calls than the model holds.
Within(w) ==
    /\ Len(w.tasks) <= MaxTasks
    /\ Len(w.removing) <= MaxRemoving
    /\ Len(w.diffs) <= MaxDiffs

\* assets.updateStart(details); the history keeps what it was called with
\* and in what state.
UpdateStart(details, reversed) ==
    /\ MayCall
    /\ \E w \in {updateStart(Called(World), details, reversed)} :
           /\ Within(w)
           /\ Commit(Note(w, "updateStart",
                          [details |-> details, status |-> updaterStatus,
                           delay |-> updaterAssetDelay]))

\* assets.updateStop(); the history keeps the state it was called in.
UpdateStop ==
    /\ MayCall
    /\ Commit(Note(updateStop(Called(World)), "updateStop",
                   [status |-> updaterStatus]))

\* The timer of updateNext fires.
UpdaterTimerFires(reversed) ==
    /\ updaterTimer
    /\ LET w0 == Note([World EXCEPT !.updaterTimer = FALSE], "updateNext",
                      [status |-> updaterStatus, by |-> "timer"])
       IN  \E w \in {updateNext(w0, reversed)} : Within(w) /\ Commit(w)

\* The fetch a call of getRemote waits for settles.
RemoteFetched(i, runs) ==
    /\ tasks[i].op = "getRemote"
    /\ \E run \in runs[tasks[i].fetcher, tasks[i].url] :
          Commit(remoteFetched(Listed(World, tasks[i], run), i, run.details))

\* assets.remove(pattern) while the updater runs.
UpdateRemovePatterns == {StringPattern("k1")}

\* assets.updateStart(details) as a manual update calls it, with no delay
\* and no auto flag.
UpdateStartDetails == {EmptyObject}

InitUpdate == InitWith(UpdaterSourceRegistries, StoredCaches, InitialObservers)

NextUpdate ==
    \/ getAssetSourceRegistry
    \/ SourceRegistryLoaded
    \/ getAssetCacheRegistry
    \/ CacheRegistryLoaded
    \/ Tick
    \/ Removed
    \/ \E details \in UpdateStartDetails, reversed \in BOOLEAN :
          UpdateStart(details, reversed)
    \/ UpdateStop
    \/ \E pattern \in UpdateRemovePatterns : Remove(pattern)
    \/ \E reversed \in BOOLEAN : UpdaterTimerFires(reversed)
    \/ \E i \in DOMAIN tasks : RemoteFetched(i, SimpleRuns)

SpecUpdate == InitUpdate /\ [][NextUpdate]_vars

(***************************************************************************)
(* The steps of a get and of a refresh of filter lists that include        *)
(* sublists.                                                               *)
(***************************************************************************)
\* How the requests for a main list and for the sublists s1 and s2 of its
\* directory end.
MainOutcomes ==
    { XhrError, XhrLoad(200, "OK", "A", 0) }
    \cup {XhrLoad(200, "OK", ListText(list), 0) :
            list \in {l \in IncludingLists : l.rest = "n;"}}

FirstSublistOutcomes ==
    { XhrError, XhrLoad(200, "OK", "<html>", 0), XhrLoad(200, "OK", "B1", 0) }
    \cup {XhrLoad(200, "OK", ListText(list), 0) :
            list \in {l \in IncludingLists : l.rest = "t;"}}

SecondSublistOutcomes ==
    { XhrLoad(404, "Not Found", "", 0), XhrLoad(200, "", "A", 3) }

\* The webs of a main list at url.
ListWebs(url) ==
    LET dir == DirectoryOf(url)
    IN  { [u \in {url, dir \o "s1", dir \o "s2", dir \o "1"} |->
              IF u = url THEN main
              ELSE IF u = dir \o "s1" THEN first
              ELSE IF u = dir \o "s2" THEN second
              ELSE XhrLoad(200, "OK", "A", 0)] :
          main \in MainOutcomes, first \in FirstSublistOutcomes,
          second \in SecondSublistOutcomes }

ListRuns == FetchRuns(ListWebs)

ListSourceRegistries ==
    { [k1 |-> SourceEntry(<<"https://a/1">>, [content |-> "filters", updateAfter |-> 1]),
       k2 |-> SourceEntry(<<"assets/local.txt">>, [content |-> "filters"])] }

EmptyCaches == {[assetCacheRegistry |-> EmptyObject, cache |-> EmptyObject]}

InitList == InitWith(ListSourceRegistries, EmptyCaches, {<<"selected">>})

NextList ==
    \/ getAssetSourceRegistry
    \/ SourceRegistryLoaded
    \/ getAssetCacheRegistry
    \/ CacheRegistryLoaded
    \/ \E assetKey \in AssetKeys : Get(assetKey, EmptyObject)
    \/ \E i \in DOMAIN tasks : GetRead(i)
    \/ \E i \in DOMAIN tasks : GetFetched(i, ListRuns)
    \/ UpdateStart(EmptyObject, FALSE)
    \/ UpdaterTimerFires(FALSE)
    \/ \E i \in DOMAIN tasks : RemoteFetched(i, ListRuns)

SpecList == InitList /\ [][NextList]_vars

(***************************************************************************)
(* Properties of the cache: write, read, unregister, get.                  *)
(***************************************************************************)
\* A call of assetCacheRead returned in the last step.
ReadReturned == Has(hist.step, "read") /\ Has(ret, "assetCacheRead")

\* The read started after assetCacheWrite(k, c), c not empty, and no write
\* or removal of k happened between that write and the return of the read.
ReadAfterWrite ==
    /\ ReadReturned
    /\ hist.step.read.written # ""
    /\ hist.step.read.undisturbed

\* C1: a read of k that follows assetCacheWrite(k, c), c a non-empty
\* string, with no other write or removal of k since, returns content c
\* and no error field.
C1_WriteThenRead ==
    ReadAfterWrite =>
        /\ ret.assetCacheRead.content = hist.step.read.written
        /\ ~Has(ret.assetCacheRead, "error")

C1_Witness ==
    /\ ReadAfterWrite
    /\ ret.assetCacheRead.content \in {"A", "B1"}

\* The removal that assets.unregisterAssetSource(key) started has completed
\* in the last step, and nothing registered or wrote key in between.
UnregisterCompleted ==
    /\ Has(hist.step, "removed")
    /\ hist.step.removed.origin = "unregister"
    /\ hist.step.removed.undisturbed

\* C2: when assets.unregisterAssetSource(key) and the cache removal it
\* starts have completed, key is in neither registry and the storage holds
\* no content for it.
C2_UnregisterLeavesNothing ==
    UnregisterCompleted =>
        LET key == hist.step.removed.pattern.key
        IN  /\ key \notin DOMAIN assetSourceRegistry
            /\ key \notin DOMAIN assetCacheRegistry
            /\ key \notin DOMAIN cacheStorage.cache

\* The unregistered key had a source entry, a cache entry and content.
C2_Witness ==
    /\ UnregisterCompleted
    /\ hist.step.removed.keys # {}
    /\ calls >= 2

\* assets.get has, in the last step, cached what it fetched for a key that
\* missed the cache.
GetCached == Has(hist.step, "cached") /\ Has(hist.step, "fetched")

\* C6: after a get(key) that misses the cache and caches the content it
\* fetched, the storage holds that content for key and the entry's
\* resourceTime is the resource time of the fetched content.
C6_GetCachesResourceTime ==
    GetCached =>
        LET key == hist.step.cached
        IN  /\ key \in DOMAIN cacheStorage.cache
            /\ cacheStorage.cache[key] = ret.get.content
            /\ key \in DOMAIN assetCacheRegistry
            /\ assetCacheRegistry[key].resourceTime = hist.step.fetched

(***************************************************************************)
(* Properties of getRemote and of the updater.                             *)
(***************************************************************************)
\* The cached copy of assetKey in the current state.
CurrentView(assetKey) ==
    CachedView(cacheStorage.cache, assetCacheRegistry, assetKey)

\* In the last step a call of getRemote processed a fetched result older
\* than the cached copy: both resource times above 0, the fetched one the
\* smaller.
FetchedOlder == Has(hist.step, "fetch") /\ hist.step.fetch.older

\* C3: a fetched result that getRemote rejects as stale causes no cache
\* write: the stored content of the key and its entry's resourceTime and
\* remoteURL are after the URL is processed what they were before.
C3_StaleNeverWrites ==
    FetchedOlder =>
        CurrentView(hist.step.fetch.assetKey) = hist.step.fetch.before

C3_Witness ==
    /\ FetchedOlder
    /\ hist.step.fetch.before.content = [content |-> "B2"]
    /\ hist.step.fetch.before.entry.resourceTime = 2

\* A call of getRemote returned in the last step, after the fetch of its
\* last URL.
RemoteReturned ==
    /\ Has(hist.step, "remote")
    /\ Has(hist.step, "fetch")
    /\ Has(ret, "getRemote")

\* The statement of C4 as the spec has it: when every URL getRemote fetched
\* with non-empty content was rejected as stale (one at least), getRemote
\* returns content '' and no error, the cached content is unchanged and the
\* entry's writeTime is the cached resourceTime.
C4_AllStale ==
    RemoteReturned /\ hist.step.remote.stale =>
        LET key == hist.step.remote.assetKey
        IN  /\ ret.getRemote = [assetKey |-> key, content |-> ""]
            /\ CurrentView(key) = hist.step.fetch.before
            /\ key \in DOMAIN assetCacheRegistry
            /\ assetCacheRegistry[key].writeTime = assetCacheRegistry[key].resourceTime

\* C4, amended: when the last URL getRemote fetches is rejected as stale,
\* getRemote returns content '' and no error, the cached content is
\* unchanged and, the entry getRemote read at its start being still the
\* entry of the key, the entry's writeTime is its resourceTime.
C4_LastStale ==
    RemoteReturned /\ hist.step.remote.lastStale =>
        LET key == hist.step.remote.assetKey
        IN  /\ ret.getRemote = [assetKey |-> key, content |-> ""]
            /\ CurrentView(key) = hist.step.fetch.before
            /\ hist.step.remote.entry =>
                  /\ key \in DOMAIN assetCacheRegistry
                  /\ assetCacheRegistry[key].writeTime =
                        assetCacheRegistry[key].resourceTime

C4_Witness ==
    /\ RemoteReturned
    /\ hist.step.remote.lastStale
    /\ hist.step.remote.entry
    /\ assetCacheRegistry[hist.step.remote.assetKey].writeTime = 2

\* A call of getRemote wrote what it fetched to the cache in the last step.
RemoteWrote == Has(hist.step, "remoteWrite")

\* The resourceTime of an entry, 0 for an entry without one.
ResourceTimeOf(entry) == IF Has(entry, "resourceTime") THEN entry.resourceTime ELSE 0

\* The statement of C5 as the spec has it: a cache write of getRemote never
\* lowers the entry's resourceTime, whatever the fetched resource time.
C5_NeverLowers ==
    RemoteWrote =>
        LET key == hist.step.remoteWrite.assetKey
        IN  assetCacheRegistry[key].resourceTime >=
                ResourceTimeOf(hist.step.remoteWrite.entryBefore)

\* C5, amended: a cache write of getRemote with a fetched resource time
\* above 0 never lowers the resourceTime of the entry getRemote read at
\* its start.
C5_KnownTimeNeverLowers ==
    /\ RemoteWrote
    /\ hist.step.remoteWrite.resourceTime > 0
    /\ hist.step.remoteWrite.entry
    => LET key == hist.step.remoteWrite.assetKey
       IN  assetCacheRegistry[key].resourceTime >=
               ResourceTimeOf(hist.step.remoteWrite.entryBefore)

C5_Witness ==
    /\ RemoteWrote
    /\ hist.step.remoteWrite.entry
    /\ ResourceTimeOf(hist.step.remoteWrite.entryBefore) = 2
    /\ assetCacheRegistry[hist.step.remoteWrite.assetKey].resourceTime = 3

\* C7: the key updateNext selects has the smallest cache writeTime (0 when
\* not cached) among the candidates that are obsolete at that moment.
C7_OldestFirst ==
    Has(hist.step, "selected") =>
        \A t \in hist.step.selected.obsolete : hist.step.selected.writeTime <= t

\* C8: from updateFirst to the updateDone that ends the cycle, updateNext
\* selects no key more than once.
C8_SelectedOnce ==
    \A assetKey \in AssetKeys : hist.cycle.selected[assetKey] <= 1

\* Both keys were selected in one cycle, the first of them before the
\* second: updateNext ran again and passed over the key already fetched.
C8_Witness ==
    /\ \A assetKey \in AssetKeys : hist.cycle.selected[assetKey] = 1
    /\ Has(hist.step, "selected")

\* C9: when every URL getRemote tried gave empty content, getRemote returns
\* content '' with error 'ENOTFOUND' and the source entry's lastError is
\* set.
C9_TotalFailure ==
    RemoteReturned /\ ~hist.step.remote.stale =>
        LET key == hist.step.remote.assetKey
        IN  /\ ret.getRemote =
                  [assetKey |-> key, content |-> "", error |-> "ENOTFOUND"]
            /\ key \in DOMAIN assetSourceRegistry
            /\ Has(assetSourceRegistry[key], "lastError")

\* C10: every key in the assetKeys of after-assets-updated had its content
\* written to the cache during the cycle that ended.
C10_UpdatedWereWritten ==
    Has(hist.step, "done") =>
        Range(hist.step.done.assetKeys) \subseteq hist.step.done.written

(***************************************************************************)
(* Properties of fetchFilterList.                                          *)
(***************************************************************************)
\* In the last step a call of fetchFilterList settled, and the fetch of
\* the main list or of a sublist had met an error.
ListFailed == Has(hist.step, "list") /\ hist.step.list.errors # {}

\* C11: when the fetch of the main list or of an included sublist meets an
\* error, fetchFilterList returns the main URL, content '' and an error
\* that a fetch met, nothing else, and the get or getRemote that called it
\* writes nothing to the cache storage nor to the cache registry.
C11_ListErrorNoWrite ==
    [][ListFailed' =>
          LET list == hist'.step.list
          IN  /\ DOMAIN list.details = {"url", "content", "error"}
              /\ list.details.url = list.url
              /\ list.details.content = ""
              /\ list.details.error \in list.errors
              /\ cacheStorage' = cacheStorage
              /\ assetCacheRegistry' = assetCacheRegistry]_vars

\* The main list and its first sublist were fetched, the second sublist,
\* included by the first, failed, and assets.get returned.
C11_Witness ==
    /\ ListFailed
    /\ hist.step.list.fetched = <<"https://a/1", "https://a/s1", "https://a/s2">>
    /\ hist.step.list.errors = {"http status"}
    /\ Has(ret, "get")

(***************************************************************************)
(* The updater with several observers.                                     *)
(***************************************************************************)
\* The observers that were added: one that returns true and one that
\* returns false for before-asset-updated, in either order, or a single one
\* that returns false.
MixedObservers ==
    {<<"selected", "unselected">>, <<"unselected", "selected">>, <<"unselected">>}

InitObservers == InitWith(ListSourceRegistries, StoredCaches, MixedObservers)

NextObservers ==
    \/ getAssetSourceRegistry
    \/ SourceRegistryLoaded
    \/ getAssetCacheRegistry
    \/ CacheRegistryLoaded
    \/ Tick
    \/ Removed
    \/ UpdateStart(EmptyObject, FALSE)
    \/ UpdaterTimerFires(FALSE)
    \/ \E i \in DOMAIN tasks : RemoteFetched(i, SimpleRuns)

SpecObservers == InitObservers /\ [][NextObservers]_vars

(***************************************************************************)
(* Properties of getUpdateCandidates.                                      *)
(***************************************************************************)
\* Some observer returns true for before-asset-updated on assetKey.
SomeObserverSelects(assetKey) ==
    \E i \in DOMAIN observers :
        ObserverReturns(observers[i], "before-asset-updated",
                        [assetKey |-> assetKey]) = "true"

\* In the step that ends here, the observers were asked about assetKey
\* with before-asset-updated.
Asked(assetKey) ==
    \E i \in DOMAIN fired :
        /\ fired[i].topic = "before-asset-updated"
        /\ fired[i].details.assetKey = assetKey

\* The state in which getUpdateCandidates asks the observers about
\* assetKey in the step that starts here: the key is not among the keys
\* fetched in this cycle (updateFirst clears them before it asks).
WhenAsked(assetKey) == [World EXCEPT !.updaterFetched = @ \ {assetKey}]

\* C12: when getUpdateCandidates asks the observers about a key (one with
\* hasRemoteURL, not fetched in this cycle) and some observer returns true
\* for before-asset-updated on that key, the key is among the update
\* candidates and its cache entry is not removed, whatever the other
\* observers return.
C12_AnySelectsIsCandidate ==
    [][\A assetKey \in AssetKeys :
          (Asked(assetKey)' /\ SomeObserverSelects(assetKey))
          => /\ assetKey \in Range(getUpdateCandidates(WhenAsked(assetKey)).toUpdate)
             /\ assetKey \in DOMAIN assetCacheRegistry
                   => assetKey \in DOMAIN assetCacheRegistry']_vars

(***************************************************************************)
(* assets.remove with each kind of pattern.                                *)
(***************************************************************************)
\* A string, a regular expression that matches k1 alone, and an array.
AnyRemovePatterns ==
    {StringPattern("k2"), RegExpPattern({"k1"}), ArrayPattern({"k1"})}

InitRemove == InitWith(StoredSourceRegistries, StoredCaches, {<<"selected">>})

NextRemove ==
    \/ getAssetSourceRegistry
    \/ SourceRegistryLoaded
    \/ getAssetCacheRegistry
    \/ CacheRegistryLoaded
    \/ \E assetKey \in AssetKeys, content \in PutContents : Put(assetKey, content)
    \/ \E pattern \in AnyRemovePatterns : Remove(pattern)
    \/ Removed

SpecRemove == InitRemove /\ [][NextRemove]_vars

\* The keys a pattern names: the string itself, the keys the regular
\* expression matches, the elements of the array.
PatternNames(pattern, assetKey) ==
    IF pattern.type = "string" THEN assetKey = pattern.key
    ELSE assetKey \in pattern.keys

\* In the last step a call of assets.remove came to its end.
RemoveEnded == Has(hist.step, "removed") /\ hist.step.removed.origin = "remove"

\* C13: when assets.remove(pattern) ends, the entries it removed are keys
\* the pattern names (by equality for a string, by match for a regular
\* expression, by membership for an array), and after-asset-updated was
\* fired once for each of them and for nothing else.
C13_RemovesWhatMatches ==
    RemoveEnded =>
        LET removed == hist.step.removed
        IN  /\ \A assetKey \in removed.keys : PatternNames(removed.pattern, assetKey)
            /\ Len(fired) = Cardinality(removed.keys)
            /\ \A assetKey \in removed.keys :
                  Cardinality({i \in DOMAIN fired :
                                  fired[i] = [topic |-> "after-asset-updated",
                                              details |-> [assetKey |-> assetKey]]}) = 1

(***************************************************************************)
(* User assets.                                                            *)
(***************************************************************************)
InitUser == InitWith(StoredSourceRegistries, StoredCaches, {<<"selected">>})

NextUser ==
    \/ getAssetSourceRegistry
    \/ SourceRegistryLoaded
    \/ getAssetCacheRegistry
    \/ CacheRegistryLoaded
    \/ \E assetKey \in UserKeys, content \in {"A", "B1"} : Put(assetKey, content)
    \/ \E assetKey \in UserKeys : Get(assetKey, EmptyObject)
    \/ \E i \in DOMAIN tasks : GetRead(i)

SpecUser == InitUser /\ [][NextUser]_vars

\* C14: a get of a key that begins with 'user-' returns what the settings
\* storage holds for the key, so what the last put of the key wrote there,
\* and no put or get of such a key changes the cache registry or the cache
\* storage.
C14_UserAssetsInSettings ==
    /\ (Has(ret, "get") /\ reIsUserAsset(ret.get.assetKey))
          => (ret.get.assetKey \in DOMAIN storage
                => ret.get.content = storage[ret.get.assetKey])
    /\ \A assetKey \in UserKeys :
          /\ assetKey \notin DOMAIN assetCacheRegistry
          /\ assetKey \notin DOMAIN cacheStorage.cache

(***************************************************************************)
(* Properties of assets.get.                                               *)
(***************************************************************************)
\* The step that ends here ended the read of a call of assets.get, the
\* cache held an entry and content for the key, and nothing wrote or
\* removed the key since the call.
HitRead(assetKey) ==
    /\ \E i \in DOMAIN tasks : tasks[i].op = "get" /\ tasks[i].pc = "read"
    /\ ReadReturned'
    /\ hist'.step.read.undisturbed
    /\ ret'.assetCacheRead.assetKey = assetKey
    /\ assetKey \in DOMAIN assetCacheRegistry
    /\ assetKey \in DOMAIN cacheStorage.cache

\* C15: when the cache holds an entry and content for a key, get(key)
\* returns that content with no error and without a fetch, and leaves the
\* source registry, the stored content and the entry's writeTime,
\* resourceTime and remoteURL as they were.
C15_HitReturnsCached ==
    [][\A assetKey \in AssetKeys :
          HitRead(assetKey) =>
              /\ Has(ret', "get")
              /\ ret'.get = [assetKey |-> assetKey,
                             content |-> cacheStorage.cache[assetKey]]
              /\ Len(tasks') = Len(tasks) - 1
              /\ \A i \in DOMAIN tasks' : tasks'[i].pc # "fetch" \/ tasks'[i] \in Range(tasks)
              /\ assetSourceRegistry' = assetSourceRegistry
              /\ cacheStorage'.cache = cacheStorage.cache
              /\ assetKey \in DOMAIN assetCacheRegistry'
              /\ \A p \in {"writeTime", "resourceTime", "remoteURL"} :
                    /\ Has(assetCacheRegistry'[assetKey], p)
                          = Has(assetCacheRegistry[assetKey], p)
                    /\ Has(assetCacheRegistry[assetKey], p)
                          => assetCacheRegistry'[assetKey][p]
                                = assetCacheRegistry[assetKey][p]]_vars

\* A get of k1 returned the content the cache held for it from an earlier
\* run, at a time later than the entry's writeTime.
C15_Witness ==
    /\ ReadReturned
    /\ hist.step.read.undisturbed
    /\ Has(ret, "get")
    /\ ret.get = [assetKey |-> "k1", content |-> "B2"]
    /\ "k1" \in DOMAIN assetCacheRegistry
    /\ assetCacheRegistry["k1"].readTime > assetCacheRegistry["k1"].writeTime

\* contentURL then cdnURLs of a source entry.
CandidateURLs(entry) ==
    (IF Has(entry, "contentURL") THEN entry.contentURL ELSE <<>>)
    \o (IF Has(entry, "cdnURLs") THEN entry.cdnURLs ELSE <<>>)

\* The URLs of urls that may be fetched: all of them, or the local ones
\* when the descriptor has hasLocalURL.
Allowed(urls, entry) ==
    {j \in DOMAIN urls :
        ~(reIsExternalPath(urls[j]) /\ Has(entry, "hasLocalURL") /\ entry.hasLocalURL = TRUE)}

\* After the step, call i of assets.get waits for the first allowed URL of
\* urls, with the URLs that follow it left to try, or has returned '' when
\* no URL is allowed.
TriesFirstOf(i, urls, entry) ==
    IF Allowed(urls, entry) = {}
    THEN /\ Len(tasks') = Len(tasks) - 1
         /\ Has(ret', "get") /\ ret'.get.content = ""
    ELSE LET j == CHOOSE j \in Allowed(urls, entry) :
                      \A k \in Allowed(urls, entry) : j <= k
         IN  /\ Len(tasks') = Len(tasks)
             /\ tasks'[i].pc = "fetch"
             /\ tasks'[i].url = urls[j]
             /\ tasks'[i].urls = SubSeq(urls, j + 1, Len(urls))
             /\ ~Has(ret', "get")

\* The source entry of key, {} when it has none.
SourceOf(assetKey) ==
    IF assetKey \in DOMAIN assetSourceRegistry
    THEN assetSourceRegistry[assetKey] ELSE EmptyObject

\* C16: a get that misses the cache tries contentURL then cdnURLs in that
\* order: it first fetches the first URL of that list that is allowed, after
\* a fetch that yields '' the first allowed URL of those that follow, and
\* after a fetch that yields content it returns that content and fetches
\* nothing more.  While the descriptor has hasLocalURL the URL it turns to
\* is never external, and content fetched from a local URL is not written
\* to the cache.
C16_UrlsInOrder ==
    [][/\ Has(hist'.step, "missed") =>
             LET i == hist'.step.missed
             IN  TriesFirstOf(i, CandidateURLs(SourceOf(tasks[i].assetKey)),
                              SourceOf(tasks[i].assetKey))
       /\ Has(hist'.step, "got") =>
             LET i == hist'.step.got.task
                 content == hist'.step.got.content
                 assetDetails == Deref(assetSourceRegistry, tasks[i].assetKey,
                                       tasks[i].assetDetails)
             IN  IF content = ""
                 THEN TriesFirstOf(i, tasks[i].urls, assetDetails)
                 ELSE /\ Len(tasks') = Len(tasks) - 1
                      /\ Has(ret', "get") /\ ret'.get.content = content
                      /\ ~reIsExternalPath(tasks[i].url)
                            => /\ cacheStorage' = cacheStorage
                               /\ assetCacheRegistry' = assetCacheRegistry]_vars

\* A get of k2 whose first URL failed returned what the CDN URL yielded and
\* cached it.
C16_Witness ==
    /\ Has(hist.step, "got") /\ hist.step.got.content # ""
    /\ Has(ret, "get") /\ ret.get.assetKey = "k2"
    /\ Has(hist.step, "cached")
    /\ assetCacheRegistry["k2"].remoteURL = "https://cdn/1"

\* The error a call of assets.get holds after a fetch that reported error
\* ("undefined" for none), having held held before.
ErrorAfter(held, error) == IF error # "undefined" THEN error ELSE held

\* Call i of assets.get returns in this step content '' and the error err,
\* writes nothing to the cache and, when its descriptor is the entry the
\* source registry holds for its key, leaves err in the entry's lastError.
FailsWith(i, err, inRegistry) ==
    LET assetKey == tasks[i].assetKey
    IN  /\ ret'.get = [assetKey |-> assetKey, content |-> "", error |-> err]
        /\ cacheStorage' = cacheStorage
        /\ assetCacheRegistry' = assetCacheRegistry
        /\ inRegistry =>
              /\ assetKey \in DOMAIN assetSourceRegistry'
              /\ Has(assetSourceRegistry'[assetKey], "lastError")
              /\ assetSourceRegistry'[assetKey].lastError = err

AnyRegisterDetails ==
    { Dict([contentURL |-> StringURL("https://a/1")], {}, {}),
      Dict([contentURL |-> ArrayURL(<<"assets/local.txt">>)], {}, {}),
      Dict(EmptyObject, {"contentURL"}, {}),
      Dict(EmptyObject, {}, {"contentURL"}),
      Dict([contentURL |-> OtherURL], {}, {}),
      Dict([content |-> "filters"], {}, {}) }

InitRegister == InitWith(StoredSourceRegistries, EmptyCaches, {<<"selected">>})

NextRegister ==
    \/ getAssetSourceRegistry
    \/ SourceRegistryLoaded
    \/ getAssetCacheRegistry
    \/ CacheRegistryLoaded
    \/ SourceSaveTimerFires
    \/ \E assetKey \in AssetKeys, details \in AnyRegisterDetails :
          RegisterAssetSource(assetKey, details)

SpecRegister == InitRegister /\ [][NextRegister]_vars

\* C18: the hasRemoteURL of every entry of the source registry is true if
\* and only if some element of the entry's contentURL is an external URL.
C18_HasRemoteURL ==
    \A assetKey \in DOMAIN assetSourceRegistry :
        LET entry == assetSourceRegistry[assetKey]
        IN  (Has(entry, "hasRemoteURL") /\ entry.hasRemoteURL = TRUE)
            <=> \E i \in DOMAIN entry.contentURL : reIsExternalPath(entry.contentURL[i])

(***************************************************************************)
(* A cache registry that names content the storage does not hold.          *)
(***************************************************************************)
\* What an earlier run left when it ended between the two calls of
\* assetCacheRemove to the storage, or lost content: the registry stored
\* holds an entry for k1 and the storage holds no cache/k1.
OrphanCaches ==
    { [assetCacheRegistry |->
          [k1 |-> CacheEntry(6, 6, 2, "https://a/1"),
           k2 |-> CacheEntry(5, 5, 0, "https://a/2")],
       cache |-> [k2 |-> "A"]] }

InitOrphan == InitWith(ListSourceRegistries, OrphanCaches \cup StoredCaches, {<<"selected">>})

NextOrphan ==
    \/ getAssetSourceRegistry
    \/ SourceRegistryLoaded
    \/ getAssetCacheRegistry
    \/ CacheRegistryLoaded
    \/ CacheSaveTimerFires
    \/ \E assetKey \in AssetKeys, content \in PutContents : Put(assetKey, content)
    \/ \E pattern \in RemovePatterns : Remove(pattern)
    \/ Removed
    \/ \E assetKey \in AssetKeys : Get(assetKey, EmptyObject)
    \/ \E i \in DOMAIN tasks : GetRead(i)
    \/ \E i \in DOMAIN tasks : GetFetched(i, SimpleRuns)

SpecOrphan == InitOrphan /\ [][NextOrphan]_vars

\* What assetCacheRead(assetKey) returns when it is called in this state and
\* nothing else runs before it ends.
ReadNow(assetKey) ==
    LET w == getCalled(World, assetKey, EmptyObject)
    IN  getRead(w, Len(w.tasks)).ret.assetCacheRead

\* C19: for every key of the cache registry, the storage holds content for
\* the key or a read of the key returns content '' and the error ENOTFOUND.
C19_EntryHasContentOrNotFound ==
    \A assetKey \in DOMAIN assetCacheRegistry :
        \/ assetKey \in DOMAIN cacheStorage.cache
        \/ ReadNow(assetKey)
              = [assetKey |-> assetKey, content |-> "", error |-> "ENOTFOUND"]

\* A get of k1 has read the cache while the registry held an entry for k1
\* and the storage no content: the read returned ENOTFOUND.
C19_Witness ==
    /\ "k1" \in DOMAIN assetCacheRegistry
    /\ "k1" \notin DOMAIN cacheStorage.cache
    /\ Has(ret, "assetCacheRead")
    /\ ret.assetCacheRead = [assetKey |-> "k1", content |-> "", error |-> "ENOTFOUND"]

(***************************************************************************)
(* assets.updateStart with delays.                                         *)
(***************************************************************************)
\* The details of a call: no delay, a delay below the default one, a delay
\* above it.
DelayDetails == {EmptyObject, [delay |-> 5000], [delay |-> 200000]}

InitDelay == InitWith(UpdaterSourceRegistries, StoredCaches, InitialObservers)

NextDelay ==
    \/ getAssetSourceRegistry
    \/ SourceRegistryLoaded
    \/ getAssetCacheRegistry
    \/ CacheRegistryLoaded
    \/ \E details \in DelayDetails : UpdateStart(details, FALSE)
    \/ UpdaterTimerFires(FALSE)
    \/ \E i \in DOMAIN tasks : RemoteFetched(i, SimpleRuns)

SpecDelay == InitDelay /\ [][NextDelay]_vars

\* assets.updateStart was called in the last step while an update cycle was
\* active.
StartedWhileUpdating ==
    Has(hist.step, "updateStart") /\ hist.step.updateStart.status = "updating"

\* C20: a call of updateStart made while the status is 'updating' leaves
\* updaterAssetDelay no larger than it was before the call, whatever delay
\* it is called with.
C20_DelayNeverRises ==
    StartedWhileUpdating => updaterAssetDelay <= hist.step.updateStart.delay

\* updateStart was called during a cycle with a delay above the one in
\* force, itself below the default, and the delay in force stayed.
C20_Witness ==
    /\ StartedWhileUpdating
    /\ Has(hist.step.updateStart.details, "delay")
    /\ hist.step.updateStart.details.delay > hist.step.updateStart.delay
    /\ hist.step.updateStart.delay < updaterAssetDelayDefault
    /\ updaterAssetDelay = hist.step.updateStart.delay
    /\ updaterStatus = "updating"

\* C21: a get that hits the cache for a key that is neither compiled/ nor
\* selfie/ leaves the entry's readTime strictly greater than it was.
C21_ReadTimeAdvances ==
    [][\A assetKey \in AssetKeys :
          HitRead(assetKey) =>
              /\ assetKey \in DOMAIN assetCacheRegistry'
              /\ assetCacheRegistry'[assetKey].readTime
                    > assetCacheRegistry[assetKey].readTime]_vars

\* The same with "greater than or equal": the read stamps Date.now().
ReadTimeNeverLowers ==
    [][\A assetKey \in AssetKeys :
          HitRead(assetKey) =>
              /\ assetKey \in DOMAIN assetCacheRegistry'
              /\ assetCacheRegistry'[assetKey].readTime = now
              /\ assetCacheRegistry'[assetKey].readTime
                    >= assetCacheRegistry[assetKey].readTime]_vars

(***************************************************************************)
(* The diff phase with its worker.  The worker (js/diff-updater.js) is not *)
(* part of assets.js; it follows the protocol of the diff orchestrator:    *)
(* it posts 'ready' once, then for each descriptor it received it may ask  *)
(* for the text once ('needtext') and answers once, with 'updated' or with *)
(* an error; it may post 'broken' at any time.  A worker's messages reach  *)
(* the phase that spawned it.                                              *)
(***************************************************************************)
\* The texts a patch gives.
PatchedTexts == {"P1"}

\* What the worker of a phase may post next when it does not break.
WorkerReplies(phase) ==
    IF phase.worker # "running" THEN {}
    ELSE IF ~phase.ready THEN {[what |-> "ready"]}
    ELSE UNION {
            {SetProp(SetProp(d, "status", "updated"), "text", text) :
                text \in PatchedTexts}
            \cup {SetProp(d, "error", "failed")}
            \cup (IF Has(d, "text") THEN {} ELSE {SetProp(d, "status", "needtext")}) :
            d \in phase.inbox}

WorkerBreaks(phase) ==
    IF phase.worker # "running" THEN {}
    ELSE {[what |-> "broken", error |-> "broken"]}

\* The worker of phase i posts data and the message handler of the phase
\* runs; the history keeps the phase as it was and the message.
WorkerPosts(i, data, reversed) ==
    /\ diffs[i].bc = "open"
    /\ \E w0 \in {[World EXCEPT
                      !.diffs[i].ready = TRUE,
                      !.diffs[i].inbox =
                          {d \in @ : ~Has(data, "name") \/ d.name # data.name}]} :
         \E w \in {Note(onmessage(w0, i, data, reversed), "message",
                        [index |-> i, phase |-> diffs[i], data |-> data])} :
            Within(w) /\ Commit(w)

\* A read made for the worker returns.
DiffTextRead(i, read) ==
    /\ read \in diffs[i].reading
    /\ Commit(diffTextRead(World, i, read))

\* Lists that can be patched: they have cdnURLs, and their cache entries
\* name a patch.
DiffSourceEntries ==
    [k1 |-> SourceEntry(<<"https://a/1">>,
                        [content |-> "filters", cdnURLs |-> <<"https://cdn/1">>,
                         updateAfter |-> 1]),
     k2 |-> SourceEntry(<<"https://a/2">>,
                        [content |-> "filters", cdnURLs |-> <<"https://cdn/1">>]),
     k3 |-> SourceEntry(<<"https://a/2">>,
                        [content |-> "filters", cdnURLs |-> <<"https://cdn/1">>])]

DiffSourceRegistries == {[k \in {"k1", "k2"} |-> DiffSourceEntries[k]]}

DiffEntry(writeTime, diffExpires) ==
    [writeTime |-> writeTime, readTime |-> writeTime, resourceTime |-> 2,
     diffName |-> "n0", diffPath |-> "p0", diffExpires |-> diffExpires]

\* At start (day 8): k1 hard and k2 soft; k1 and k2 hard.
DiffCaches ==
    { [assetCacheRegistry |-> [k1 |-> DiffEntry(6, 1), k2 |-> DiffEntry(5, 4)],
       cache |-> [k1 |-> "B2", k2 |-> "B2"]],
      [assetCacheRegistry |-> [k1 |-> DiffEntry(6, 1), k2 |-> DiffEntry(5, 1)],
       cache |-> [k1 |-> "B2", k2 |-> "B2"]] }

\* The webs in which url fails or answers with a list.
PlainWebs(url) == {OnlyURL(url, xhr) : xhr \in {XhrError, XhrLoad(200, "OK", "B1", 0)}}

PlainRuns == FetchRuns(PlainWebs)

InitDiff == InitWith(DiffSourceRegistries, DiffCaches, {<<"selected">>})

NextDiff ==
    \/ getAssetSourceRegistry
    \/ SourceRegistryLoaded
    \/ getAssetCacheRegistry
    \/ CacheRegistryLoaded
    \/ \E details \in {EmptyObject, [delay |-> 5000]} : UpdateStart(details, FALSE)
    \/ UpdateStop
    \/ UpdaterTimerFires(FALSE)
    \/ \E i \in DOMAIN tasks : RemoteFetched(i, PlainRuns)
    \/ \E i \in DOMAIN diffs :
          \E data \in WorkerReplies(diffs[i]) \cup WorkerBreaks(diffs[i]) :
             WorkerPosts(i, data, FALSE)
    \/ \E i \in DOMAIN diffs : \E read \in diffs[i].reading : DiffTextRead(i, read)

SpecDiff == InitDiff /\ [][NextDiff]_vars

\* The phases whose channel is open and whose worker runs.
OpenPhases(ds) == Cardinality({j \in DOMAIN ds : ds[j].bc = "open" /\ ds[j].worker = "running"})

\* In the step that ends here the worker of a phase posted 'broken'.
BrokenPosted ==
    /\ Has(hist.step, "message")
    /\ Has(hist.step.message.data, "what")
    /\ hist.step.message.data.what = "broken"

\* C22: when the worker posts 'broken' during the diff phase of an active
\* cycle, the worker is terminated and the channel closed, the status is
\* still 'updating' when the diff phase ends, and updateNext runs: it
\* starts a refresh, or ends the cycle when nothing is left to refresh.
C22_BrokenEndsDiffPhaseOnly ==
    [][(BrokenPosted' /\ updaterStatus = "updating") =>
          /\ OpenPhases(diffs') = OpenPhases(diffs) - 1
          /\ diffUpdaterPending' = diffUpdaterPending - 1
          /\ \A j \in DOMAIN diffs' :
                \/ diffs'[j].bc = "open" /\ diffs'[j].worker = "running"
                \/ diffs'[j].bc = "closed" /\ diffs'[j].worker = "terminated"
          /\ Has(hist'.step, "updateNext")
          /\ hist'.step.updateNext.status = "updating"
          /\ \/ /\ Has(hist'.step, "selected")
                /\ updaterStatus' = "updating"
                /\ Len(tasks') = Len(tasks) + 1 \/ updaterTimer'
             \/ /\ Has(hist'.step, "done")
                /\ updaterStatus' = "undefined"]_vars

\* The worker broke while it was patching k1; no phase is left, the cycle
\* is still active and the refresh of a key has started.
C22_Witness ==
    /\ BrokenPosted
    /\ hist.step.message.phase.pendingOps > 0
    /\ diffs = <<>>
    /\ diffUpdaterPending = 0
    /\ updaterStatus = "updating"
    /\ Has(hist.step, "selected")
    /\ \E i \in DOMAIN tasks : tasks[i].op = "getRemote"

\* C26: no updateNext starts while the diff phase of the cycle has not
\* completed, also when updateStart is called again with a shorter delay
\* during the diff phase.
C26_NoRefreshDuringDiffPhase ==
    [][(/\ Has(hist'.step, "updateNext")
        /\ hist'.step.updateNext.by = "timer"
        /\ updaterStatus = "updating")
          => OpenPhases(diffs) = 0]_vars

(***************************************************************************)
(* The diff phase of three lists.                                          *)
(***************************************************************************)
\* At start (day 8): k1 and k2 hard, k3 soft; the three soft.
SoftCaches ==
    { [assetCacheRegistry |-> [k1 |-> DiffEntry(6, 1), k2 |-> DiffEntry(5, 1),
                               k3 |-> DiffEntry(5, 4)],
       cache |-> [k1 |-> "B2", k2 |-> "B2", k3 |-> "B2"]],
      [assetCacheRegistry |-> [k1 |-> DiffEntry(7, 2), k2 |-> DiffEntry(5, 4),
                               k3 |-> DiffEntry(5, 4)],
       cache |-> [k1 |-> "B2", k2 |-> "B2", k3 |-> "B2"]] }

InitSoft == InitWith({DiffSourceEntries}, SoftCaches, {<<"selected">>})

NextSoft ==
    \/ getAssetSourceRegistry
    \/ SourceRegistryLoaded
    \/ getAssetCacheRegistry
    \/ CacheRegistryLoaded
    \/ UpdateStart(EmptyObject, FALSE)
    \/ UpdaterTimerFires(FALSE)
    \/ \E i \in DOMAIN tasks : RemoteFetched(i, PlainRuns)
    \/ \E i \in DOMAIN diffs :
          \E data \in WorkerReplies(diffs[i]) \cup WorkerBreaks(diffs[i]) :
             WorkerPosts(i, data, FALSE)
    \/ \E i \in DOMAIN diffs : \E read \in diffs[i].reading : DiffTextRead(i, read)

SpecSoft == InitSoft /\ [][NextSoft]_vars

\* The names of the soft descriptors a phase has still to post.
SoftNames(phase) == {phase.toSoftUpdate[j].name : j \in DOMAIN phase.toSoftUpdate}

\* The names of the descriptors the worker of a phase holds, or waits the
\* text of: those posted that have no terminal reply yet.
Unanswered(phase) ==
    {d.name : d \in phase.inbox} \cup {read.data.name : read \in phase.reading}

\* The list of assetKey would be a hard candidate of diffUpdater now.
HardCandidate(assetKey) ==
    /\ assetKey \in DOMAIN assetSourceRegistry
    /\ Has(assetSourceRegistry[assetKey], "hasRemoteURL")
    /\ assetSourceRegistry[assetKey].hasRemoteURL
    /\ Has(assetSourceRegistry[assetKey], "cdnURLs")
    /\ fireNotificationResult(observers, "before-asset-updated",
            IF Has(assetSourceRegistry[assetKey], "content")
            THEN [assetKey |-> assetKey, type |-> assetSourceRegistry[assetKey].content]
            ELSE [assetKey |-> assetKey]) = "true"
    /\ assetKey \in DOMAIN assetCacheRegistry
    /\ Has(assetCacheRegistry[assetKey], "diffPath")
    /\ Has(assetCacheRegistry[assetKey], "diffName")
    /\ LET entry == assetCacheRegistry[assetKey]
           source == assetSourceRegistry[assetKey]
           days == IF Has(entry, "diffExpires") THEN entry.diffExpires
                   ELSE IF Has(entry, "expires") THEN entry.expires
                   ELSE IF Has(source, "updateAfter") THEN source.updateAfter
                   ELSE EXPIRES_DEFAULT
       IN  entry.writeTime + days * MS_PER_DAY <= now

\* C29: in the diff phase no soft descriptor is posted while a hard
\* descriptor is unposted or without its terminal reply, a soft descriptor
\* never carries fetch: true, and a cycle that starts with no hard
\* candidate spawns no worker and posts nothing.
C29_SoftAfterHard ==
    [][/\ (Has(hist'.step, "message") /\ Has(hist'.step, "posted")) =>
            LET before == hist'.step.message.phase
                after == diffs'[hist'.step.message.index]
                softPosted == {d \in Range(hist'.step.posted) :
                                  d.name \in SoftNames(before)}
            IN  softPosted # {} =>
                    /\ \A d \in softPosted : ~Has(d, "fetch")
                    /\ after.toHardUpdate = <<>>
                    /\ Unanswered(after) \subseteq SoftNames(before)
       /\ (/\ Has(hist'.step, "updateStart")
           /\ hist'.step.updateStart.status = "undefined"
           /\ \A assetKey \in DOMAIN assetSourceRegistry : ~HardCandidate(assetKey)) =>
            /\ diffs' = diffs
            /\ diffUpdaterPending' = diffUpdaterPending
            /\ ~Has(hist'.step, "posted")]_vars

\* Two hard descriptors were posted; the second answer arrived and the
\* soft descriptor of k3 was posted, without fetch.
C29_Witness ==
    /\ Has(hist.step, "message")
    /\ Has(hist.step, "posted")
    /\ hist.step.message.phase.pendingOps = 1
    /\ hist.step.message.phase.toHardUpdate = <<>>
    /\ Len(hist.step.posted) = 1
    /\ hist.step.posted[1].name = "k3"
    /\ ~Has(hist.step.posted[1], "fetch")
    /\ \E i \in DOMAIN diffs : diffs[i].pendingOps = 1 /\ Unanswered(diffs[i]) = {"k3"}

\* A cycle started with soft candidates only: no phase, and a refresh or
\* the end of the cycle at once.
StartedWithoutHard ==
    /\ Has(hist.step, "updateStart")
    /\ hist.step.updateStart.status = "undefined"
    /\ diffs = <<>>
    /\ \E assetKey \in DOMAIN assetCacheRegistry :
          /\ Has(assetCacheRegistry[assetKey], "diffPath")
          /\ assetCacheRegistry[assetKey].writeTime
                + assetCacheRegistry[assetKey].diffExpires > now

(***************************************************************************)
(* The diff phase with a worker that does not break and answers: it posts  *)
(* 'ready', and one terminal reply for each descriptor it received.        *)
(***************************************************************************)
WorkerAnswers ==
    \E i \in DOMAIN diffs :
       \E data \in WorkerReplies(diffs[i]) : WorkerPosts(i, data, FALSE)

TextIsRead ==
    \E i \in DOMAIN diffs : \E read \in diffs[i].reading : DiffTextRead(i, read)

NextAnswers ==
    \/ getAssetSourceRegistry
    \/ SourceRegistryLoaded
    \/ getAssetCacheRegistry
    \/ CacheRegistryLoaded
    \/ UpdateStart(EmptyObject, FALSE)
    \/ UpdaterTimerFires(FALSE)
    \/ \E i \in DOMAIN tasks : RemoteFetched(i, PlainRuns)
    \/ WorkerAnswers
    \/ TextIsRead

\* WorkerAnswers is enabled, TextIsRead is enabled.
CanAnswer ==
    \E i \in DOMAIN diffs : diffs[i].bc = "open" /\ WorkerReplies(diffs[i]) # {}

CanRead == \E i \in DOMAIN diffs : diffs[i].reading # {}

\* Weak fairness of WorkerAnswers and of TextIsRead, written out: either
\* the action is disabled infinitely often or it is taken infinitely often.
SpecAnswers ==
    /\ InitSoft /\ [][NextAnswers]_vars
    /\ ([]<>(~CanAnswer) \/ []<><<WorkerAnswers>>_vars)
    /\ ([]<>(~CanRead) \/ []<><<TextIsRead>>_vars)

\* In the step that ends here a diff phase ended: terminate was called.
PhaseEnded == Has(hist.step, "terminate")

\* C30: with a worker that posts 'ready' once and one terminal reply per
\* descriptor, pendingOps is never negative, a phase ends only when every
\* hard and soft descriptor is posted and answered, ending it terminates the
\* worker, closes the channel and resolves the promise (once: as many
\* promises are unresolved as phases are open), and every phase ends.
C30_DiffPhaseEnds ==
    /\ [](/\ \A i \in DOMAIN diffs : diffs[i].pendingOps >= 0
          /\ diffUpdaterPending = OpenPhases(diffs)
          /\ PhaseEnded =>
                /\ hist.step.terminate.pendingOps = 0
                /\ hist.step.terminate.toHardUpdate = <<>>
                /\ hist.step.terminate.toSoftUpdate = <<>>
                /\ hist.step.terminate.ready
                /\ Unanswered(hist.step.terminate) = {})
    /\ [][PhaseEnded' =>
            /\ OpenPhases(diffs') = OpenPhases(diffs) - 1
            /\ \A j \in DOMAIN diffs' :
                  diffs'[j].bc = "closed" <=> diffs'[j].worker = "terminated"]_vars
    /\ (OpenPhases(diffs) > 0 ~> OpenPhases(diffs) = 0)

\* The phase of two hard and one soft descriptor ended with the answer for
\* k3, the three lists patched.
C30_Witness ==
    /\ PhaseEnded
    /\ hist.step.message.data.name = "k3"
    /\ hist.step.message.phase.pendingOps = 1
    /\ diffs = <<>>
    /\ diffUpdaterPending = 0
    /\ Range(updaterUpdated) = {"k1", "k2", "k3"} \/ updaterStatus = "undefined"

(***************************************************************************)
(* The updater refreshes assets.json and replaces the source registry by   *)
(* what it holds.  The registry lists assets.json, the built-in list k1    *)
(* and the list k2 that a user submitted.                                  *)
(***************************************************************************)
JsonSourceRegistries ==
    { ("assets.json" :> SourceEntry(<<"https://a/1">>,
                                    [content |-> "internal", updateAfter |-> 1]))
      @@ ("k1" :> SourceEntry(<<"https://a/2">>, [content |-> "filters"]))
      @@ ("k2" :> SourceEntry(<<"https://cdn/1">>,
                              [content |-> "filters", submitter |-> "user"])) }

JsonCaches ==
    { [assetCacheRegistry |->
          ("assets.json" :> CacheEntry(6, 8, 0, "https://a/1"))
          @@ ("k1" :> CacheEntry(7, 8, 0, "https://a/2"))
          @@ ("k2" :> CacheEntry(7, 8, 0, "https://cdn/1")),
       cache |-> ("assets.json" :> "J2") @@ ("k1" :> "A") @@ ("k2" :> "B1")],
      [assetCacheRegistry |-> "k1" :> CacheEntry(0, 8, 0, "https://a/2"),
       cache |-> "k1" :> "A"] }

\* How the request for assets.json, or for a list, ends.
JsonWebs(url) ==
    {OnlyURL(url, xhr) :
        xhr \in {XhrError} \cup {XhrLoad(200, "OK", body, 0) : body \in JsonTexts \cup {"A"}}}

JsonRuns == FetchRuns(JsonWebs)

InitJson == InitWith(JsonSourceRegistries, JsonCaches, {<<"selected">>})

NextJson ==
    \/ getAssetSourceRegistry
    \/ SourceRegistryLoaded
    \/ getAssetCacheRegistry
    \/ CacheRegistryLoaded
    \/ Removed
    \/ UpdateStart(EmptyObject, FALSE)
    \/ UpdaterTimerFires(FALSE)
    \/ \E i \in DOMAIN tasks : RemoteFetched(i, JsonRuns)

SpecJson == InitJson /\ [][NextJson]_vars

\* The members of the parsed object are objects, as the entries of a source
\* registry are.
MembersAreObjects(newDict) == \A k \in DOMAIN newDict : newDict[k].type = "object"

\* The old entries that carry a submitter.
Submitted(oldDict) == {k \in DOMAIN oldDict : Has(oldDict[k], "submitter")}

\* What the step that ran updateAssetSourceRegistry, update, left: the keys
\* of the registry are those of newDict and the submitted ones; the other
\* old keys are gone with their cache entries and their cached content; no
\* other cache entry was removed.
SourcesReplaced(update) ==
    LET kept == Submitted(update.oldDict)
        gone == DOMAIN update.oldDict \ (DOMAIN update.newDict \cup kept)
    IN  /\ DOMAIN assetSourceRegistry' = DOMAIN update.newDict \cup kept
        /\ gone \cap DOMAIN assetCacheRegistry' = {}
        /\ gone \cap DOMAIN cacheStorage'.cache = {}
        /\ update.oldCached \ DOMAIN assetCacheRegistry' \subseteq gone
        /\ kept \subseteq DOMAIN assetSourceRegistry'

\* C23 (as amended): after updateAssetSourceRegistry(json) with a JSON
\* object whose members are all objects, the keys of the source registry
\* are exactly the keys of the new object plus the old keys that carry a
\* submitter; every old key without submitter that is absent from the new
\* object is removed together with its cache entry, and no entry with a
\* submitter is removed.
C23_RegistryReplaced ==
    [][(/\ Has(hist'.step, "sources")
        /\ MembersAreObjects(hist'.step.sources.newDict))
          => SourcesReplaced(hist'.step.sources)]_vars

\* C23 (as stated): the same for every valid JSON object.
C23_AnyJsonObject ==
    [][Has(hist'.step, "sources") => SourcesReplaced(hist'.step.sources)]_vars

\* assets.json came without k1 and k2: k1, built-in and cached, is gone
\* with its cache entry, k2, submitted, stays, and k3 is new.
C23_Witness ==
    /\ Has(hist.step, "sources")
    /\ hist.step.sources.json = "J1"
    /\ "k1" \in DOMAIN hist.step.sources.oldDict
    /\ "k1" \in hist.step.sources.oldCached
    /\ "k1" \notin DOMAIN assetSourceRegistry
    /\ "k1" \notin DOMAIN assetCacheRegistry
    /\ "k2" \in DOMAIN assetSourceRegistry
    /\ "k2" \in DOMAIN assetCacheRegistry
    /\ "k3" \in DOMAIN assetSourceRegistry

\* The calls of getRemote, all made by updateNext, that await a fetch.
RefreshesInFlight == {i \in DOMAIN tasks : tasks[i].op = "getRemote"}

\* C24: under every interleaving of updateStart, updateStop, timer ticks
\* and fetch completions, at most one refresh that updateNext started is in
\* flight at any time.
C24_OneRefreshInFlight == Cardinality(RefreshesInFlight) <= 1

\* The notifications of a topic among those of the last step.
FiredOf(topic) == {i \in DOMAIN fired : fired[i].topic = topic}

\* The last step was updateStop, called during an active cycle.
JustStopped ==
    /\ Has(hist.step, "updateStop")
    /\ hist.step.updateStop.status = "updating"

\* C25: after updateStop is called during an active cycle, the status is
\* idle and after-assets-updated has been fired once for that cycle; until
\* the next updateStart no refresh is started, the update timer is not
\* re-armed and after-assets-updated is not fired again, even when a fetch
\* was in flight at the time of updateStop.  The second part is stated for
\* the step that follows updateStop.
C25_StopIsFinal ==
    /\ [](JustStopped => /\ updaterStatus = "undefined"
                         /\ Cardinality(FiredOf("after-assets-updated")) = 1
                         /\ ~updaterTimer)
    /\ [][(JustStopped /\ ~Has(hist'.step, "updateStart"))
            => /\ ~Has(hist'.step, "selected")
               /\ ~updaterTimer'
               /\ (hist' # hist => FiredOf("after-assets-updated")' = {})]_vars

\* What updateStop leaves at once, fetch in flight or not.
StopEndsCycle ==
    JustStopped => /\ updaterStatus = "undefined"
                   /\ Cardinality(FiredOf("after-assets-updated")) = 1
                   /\ ~updaterTimer

(***************************************************************************)
(* The updater on cache entries that hold an expires field, as getRemote   *)
(* leaves them for a list with an `! Expires:` header.                     *)
(***************************************************************************)
ExpiringEntry(writeTime, expires) ==
    SetProp(CacheEntry(writeTime, 8, 0, "https://a/1"), "expires", expires)

ExpiringCaches ==
    { [assetCacheRegistry |-> [k1 |-> ExpiringEntry(6, 2), k2 |-> ExpiringEntry(7, 2)],
       cache |-> [k1 |-> "B2", k2 |-> "B2"]],
      [assetCacheRegistry |-> [k1 |-> ExpiringEntry(7, 3)],
       cache |-> [k1 |-> "B2"]] }

InitExpiry == InitWith(UpdaterSourceRegistries, ExpiringCaches, {<<"selected">>})

NextExpiry ==
    \/ getAssetSourceRegistry
    \/ SourceRegistryLoaded
    \/ getAssetCacheRegistry
    \/ CacheRegistryLoaded
    \/ Tick
    \/ UpdateStart(EmptyObject, FALSE)
    \/ UpdaterTimerFires(FALSE)
    \/ \E i \in DOMAIN tasks : RemoteFetched(i, SimpleRuns)

SpecExpiry == InitExpiry /\ [][NextExpiry]_vars

\* The time to live of the key updateNext selected, from what the cache
\* entry and the source entry held at the selection: the entry's expires,
\* else the source's updateAfter, else 7 days.
SelectedTTL(selected) ==
    IF selected.cached /\ Has(selected.entry, "expires")
    THEN selected.entry.expires * MS_PER_DAY
    ELSE IF Has(selected.source, "updateAfter")
    THEN selected.source.updateAfter * MS_PER_DAY
    ELSE 7 * MS_PER_DAY

\* Its write time, 0 when the key is not cached.
SelectedWriteTime(selected) ==
    IF selected.cached /\ Has(selected.entry, "writeTime")
    THEN selected.entry.writeTime ELSE 0

\* C27: every key for which updateNext starts a refresh satisfies
\* writeTime + TTL <= now at selection time, where TTL is the cache entry's
\* expires, else the source entry's updateAfter, else 7 days, and writeTime
\* is 0 when the key is not cached; so a key written earlier is not
\* refreshed again before its TTL has elapsed.
C27_OnlyExpiredRefreshed ==
    Has(hist.step, "selected") =>
        /\ SelectedWriteTime(hist.step.selected) + SelectedTTL(hist.step.selected) <= now
        /\ \A assetKey \in hist.cycle.written :
              assetKey = hist.step.selected.assetKey =>
                 hist.step.selected.entry.writeTime
                   + SelectedTTL(hist.step.selected) <= now

\* A key whose entry holds an expires greater than the updateAfter of its
\* source is refreshed, in a later cycle, at the very time its TTL has
\* elapsed.
C27_Witness ==
    /\ Has(hist.step, "selected")
    /\ hist.step.selected.cached
    /\ Has(hist.step.selected.entry, "expires")
    /\ Has(hist.step.selected.source, "updateAfter")
    /\ hist.step.selected.entry.expires > hist.step.selected.source.updateAfter
    /\ hist.step.selected.entry.writeTime > 0
    /\ hist.step.selected.entry.writeTime + SelectedTTL(hist.step.selected) = now

(***************************************************************************)
(* A cycle of the updater left to itself: every fetch completes and the    *)
(* timer of updateNext, once armed, fires.                                 *)
(***************************************************************************)
InitCycle == InitWith(UpdaterSourceRegistries, StoredCaches, {<<"selected">>})

FetchCompletes == \E i \in DOMAIN tasks : RemoteFetched(i, SimpleRuns)

NextCycle ==
    \/ getAssetSourceRegistry
    \/ SourceRegistryLoaded
    \/ getAssetCacheRegistry
    \/ CacheRegistryLoaded
    \/ UpdateStart(EmptyObject, FALSE)
    \/ UpdaterTimerFires(FALSE)
    \/ FetchCompletes

\* Weak fairness of the timer and of the fetches: the timer is enabled when
\* it is armed, the completion of a fetch when a call awaits one.
SpecCycle ==
    /\ InitCycle /\ [][NextCycle]_vars
    /\ ([]<>(~updaterTimer) \/ []<><<UpdaterTimerFires(FALSE)>>_vars)
    /\ ([]<>(RefreshesInFlight = {}) \/ []<><<FetchCompletes>>_vars)

\* getRemote has ended with every URL it tried yielding no content.
RefreshFailed(step) == Has(step, "remote") /\ ~step.remote.stale

\* The step fires asset-update-failed for the key whose refresh ended.
FailureFired ==
    \E i \in DOMAIN fired' :
        /\ fired'[i].topic = "asset-update-failed"
        /\ fired'[i].details.assetKey = hist'.step.remote.assetKey

\* C28: when a refresh fails in updateNext, asset-update-failed is fired
\* for that key, the next updateNext is scheduled and the cycle is not
\* ended by the failure; every fetch completing, every started cycle
\* eventually reaches updateDone and returns to idle.
C28_FailureKeepsCycle ==
    /\ [][RefreshFailed(hist'.step)
            => /\ FailureFired
               /\ updaterTimer'
               /\ updaterStatus' = updaterStatus]_vars
    /\ (updaterStatus = "updating" ~> updaterStatus = "undefined")

\* After a failed refresh the timer of updateNext is armed and the status
\* is what it was.
FailureSchedulesNext ==
    [][RefreshFailed(hist'.step)
         => updaterTimer' /\ updaterStatus' = updaterStatus]_vars

\* A failure that getRemote reports as an error is notified.
ReportedFailureFired ==
    [][(RefreshFailed(hist'.step) /\ Has(ret'.getRemote, "error"))
         => FailureFired]_vars

\* Every started cycle returns to idle.
CycleEnds == updaterStatus = "updating" ~> updaterStatus = "undefined"

(***************************************************************************)
(* The updater's eviction of unused assets while assets are read and       *)
(* written: observers that select, that refuse and that say nothing.       *)
(***************************************************************************)
GcObservers ==
    {<<"unselected">>, <<"selected", "unselected">>, <<"logger", "selectedK1">>}

InitGc == InitWith(UpdaterSourceRegistries, StoredCaches, GcObservers)

NextGc ==
    \/ getAssetSourceRegistry
    \/ SourceRegistryLoaded
    \/ getAssetCacheRegistry
    \/ CacheRegistryLoaded
    \/ \E assetKey \in AssetKeys : Put(assetKey, "A")
    \/ \E assetKey \in AssetKeys : Get(assetKey, EmptyObject)
    \/ \E i \in DOMAIN tasks : GetRead(i)
    \/ \E i \in DOMAIN tasks : GetFetched(i, PlainRuns)
    \/ Removed
    \/ UpdateStart(EmptyObject, FALSE)
    \/ UpdaterTimerFires(FALSE)
    \/ \E i \in DOMAIN tasks : RemoteFetched(i, PlainRuns)

SpecGc == InitGc /\ [][NextGc]_vars

\* The entries that getUpdateCandidates removes in the step: those of the
\* calls of assetCacheRemove it made.
Collected ==
    UNION {removing'[j].removedEntries :
             j \in {j \in (Len(removing) + 1)..Len(removing') :
                      removing'[j].origin = "unused"}}

\* The step reads the cached content of assetKey.
ReadHit(assetKey) ==
    /\ Has(hist'.step, "read")
    /\ Has(ret', "assetCacheRead")
    /\ ret'.assetCacheRead.assetKey = assetKey
    /\ ret'.assetCacheRead.content # ""

\* The step stores content for assetKey.
ContentStored(assetKey) ==
    /\ assetKey \in DOMAIN cacheStorage'.cache
    /\ \/ assetKey \notin DOMAIN cacheStorage.cache
       \/ cacheStorage'.cache[assetKey] # cacheStorage.cache[assetKey]

\* The eviction takes entries not read since the process started, a read
\* or a write leaves the entry with a readTime that is not earlier than the
\* start, and the readTime of an entry does not go back: an entry read or
\* written since the start is not evicted.
UsedIsKept ==
    /\ [][\A assetKey \in Collected :
             assetCacheRegistry[assetKey].readTime < assetCacheRegistryStartTime]_vars
    /\ [][\A assetKey \in DOMAIN assetCacheRegistry' :
             (ReadHit(assetKey) \/ ContentStored(assetKey))
             => assetCacheRegistry'[assetKey].readTime >= assetCacheRegistryStartTime]_vars
    /\ [][\A assetKey \in DOMAIN assetCacheRegistry \cap DOMAIN assetCacheRegistry' :
             assetCacheRegistry'[assetKey].readTime
                >= assetCacheRegistry[assetKey].readTime]_vars

\* The eviction takes entries only when fireNotification did not return
\* true for the key.
UnselectedIsCollected ==
    [][\A assetKey \in Collected :
          fireNotificationResult(observers, "before-asset-updated",
                                 [assetKey |-> assetKey]) # "true"]_vars

\* C31: getUpdateCandidates removes a cache entry only when no observer
\* vetoed the removal for its key, by returning true for
\* before-asset-updated, and the entry's readTime is earlier than the
\* process start time; an entry read through get or written since the
\* process started is never removed by it.
C31_GcOnlyUnvetoedUnread ==
    /\ [][\A assetKey \in Collected : ~SomeObserverSelects(assetKey)]_vars
    /\ UsedIsKept

\* The observers are asked about a key whose entry was used since the
\* start; none selects it, and the entry stays.
UsedIsAsked ==
    \E assetKey \in AssetKeys :
        /\ Asked(assetKey)
        /\ ~SomeObserverSelects(assetKey)
        /\ assetKey \in DOMAIN assetCacheRegistry
        /\ assetCacheRegistry[assetKey].readTime >= assetCacheRegistryStartTime

(***************************************************************************)
(* assets.purge: assetCacheMarkAsDirty.                                    *)
(***************************************************************************)
\* An argument that is neither a string, a regular expression nor an array.
NoPattern == [type |-> "undefined"]

\* The entries the first test of the loop does not `continue` past.
DirtyMatches(pattern, assetKey) ==
    /\ ~(pattern.type = "regexp" /\ assetKey \notin pattern.keys)
    /\ ~(pattern.type = "string" /\ assetKey # pattern.key)
    /\ ~(pattern.type = "array" /\ assetKey \notin pattern.keys)

\* A test of exclude that lets every entry through.
excludesNothing(exclude, assetKey) == FALSE

\* The entries the second test of the loop does `continue` past.
DirtyExcludes(exclude, assetKey) ==
    \/ exclude.type = "regexp" /\ assetKey \in exclude.keys
    \/ exclude.type = "string" /\ assetKey = exclude.key
    \/ exclude.type = "array" /\ assetKey \in exclude.keys

\* assetCacheMarkAsDirty(pattern, exclude), after its await of the registry.
assetCacheMarkAsDirty(w, pattern, exclude) ==
    LET cacheDict == w.assetCacheRegistry
        marked == {assetKey \in DOMAIN cacheDict :
                     /\ DirtyMatches(pattern, assetKey)
                     /\ ~DirtyExcludes(exclude, assetKey)
                     /\ cacheDict[assetKey].writeTime # 0}
        mustSave == marked # {}
        w1 == [w EXCEPT !.assetCacheRegistry =
                 [assetKey \in DOMAIN @ |->
                    IF assetKey \in marked
                    THEN [@[assetKey] EXCEPT !.writeTime = 0] ELSE @[assetKey]]]
        w2 == IF mustSave THEN Stored(w1, "assetCacheRegistry") ELSE w1
    IN  Note(w2, "purge", [pattern |-> pattern, exclude |-> exclude,
                           mustSave |-> mustSave])

\* assets.purge(pattern, exclude)
Purge(pattern, exclude) ==
    /\ MayCall
    /\ Commit(assetCacheMarkAsDirty(Called(World), pattern, exclude))

PurgePatterns ==
    {StringPattern("k1"), RegExpPattern(AssetKeys), ArrayPattern({"k2"}), NoPattern}

PurgeExcludes ==
    {NoPattern, StringPattern("k1"), RegExpPattern({"k2"}), ArrayPattern(AssetKeys)}

InitPurge == InitWith(StoredSourceRegistries, StoredCaches, {<<"selected">>})

NextPurge ==
    \/ getAssetSourceRegistry
    \/ SourceRegistryLoaded
    \/ getAssetCacheRegistry
    \/ CacheRegistryLoaded
    \/ Tick
    \/ \E assetKey \in AssetKeys, content \in PutContents : Put(assetKey, content)
    \/ Removed
    \/ \E pattern \in PurgePatterns, exclude \in PurgeExcludes :
          Purge(pattern, exclude)

SpecPurge == InitPurge /\ [][NextPurge]_vars

\* The step is a call of assets.purge with a string, a regular expression
\* or an array for pattern.
Purged == Has(hist'.step, "purge") /\ hist'.step.purge.pattern # NoPattern

\* The keys the arguments of the call single out.
PurgeNames(purge, assetKey) ==
    /\ PatternNames(purge.pattern, assetKey)
    /\ ~(purge.exclude # NoPattern /\ PatternNames(purge.exclude, assetKey))

\* C32: assets.purge(pattern, exclude) sets writeTime to 0 for exactly the
\* cache entries whose key matches pattern and does not match exclude; it
\* removes no entry, changes no content and changes no other field of any
\* entry.
C32_PurgeMarksExactly ==
    [][Purged =>
        /\ DOMAIN assetCacheRegistry' = DOMAIN assetCacheRegistry
        /\ cacheStorage'.cache = cacheStorage.cache
        /\ \A assetKey \in DOMAIN assetCacheRegistry :
              assetCacheRegistry'[assetKey] =
                 IF PurgeNames(hist'.step.purge, assetKey)
                 THEN [assetCacheRegistry[assetKey] EXCEPT !.writeTime = 0]
                 ELSE assetCacheRegistry[assetKey]]_vars

\* A call of assets.purge has marked one entry and left another, whose
\* writeTime is not 0, as it was; the content of both is still stored.
C32_Witness ==
    /\ Has(hist.step, "purge")
    /\ hist.step.purge.pattern # NoPattern
    /\ hist.step.purge.exclude # NoPattern
    /\ hist.step.purge.mustSave
    /\ \E marked, other \in DOMAIN assetCacheRegistry :
          /\ PurgeNames(hist.step.purge, marked)
          /\ assetCacheRegistry[marked].writeTime = 0
          /\ ~PurgeNames(hist.step.purge, other)
          /\ assetCacheRegistry[other].writeTime # 0
          /\ {marked, other} \subseteq DOMAIN cacheStorage.cache

\* A pattern that is neither a string, a regular expression nor an array
\* leaves the choice to exclude alone.
PurgeWithoutPattern ==
    [][(Has(hist'.step, "purge") /\ hist'.step.purge.pattern = NoPattern) =>
        \A assetKey \in DOMAIN assetCacheRegistry :
           assetCacheRegistry'[assetKey].writeTime =
              IF DirtyExcludes(hist'.step.purge.exclude, assetKey)
              THEN assetCacheRegistry[assetKey].writeTime ELSE 0]_vars

(***************************************************************************)
(* The assembly of a filter list pass by pass: lists that include each     *)
(* other, and the main list, in a circle.                                  *)
(***************************************************************************)
MainURLs == {"https://a/1", "https://a/2"}

\* The body of a sublist that includes the list named 1 and s1.
CircularBody ==
    ListText(CHOOSE list \in IncludingLists :
                \E j \in DOMAIN list.includes : list.includes[j].name = "1")

\* The webs of a main list at url: s1 may include s2, itself and the list
\* named 1 of its directory, and s2 may include s1 and that list.
AssemblyWebs(url) ==
    LET dir == DirectoryOf(url)
    IN  { [u \in {url, dir \o "s1", dir \o "s2", dir \o "1"} |->
              IF u = url THEN main
              ELSE IF u = dir \o "s1" THEN first
              ELSE IF u = dir \o "s2" THEN second
              ELSE XhrLoad(200, "OK", "A", 0)] :
          main \in MainOutcomes, first \in FirstSublistOutcomes,
          second \in SecondSublistOutcomes \cup {XhrLoad(200, "OK", CircularBody, 0)} }

\* assets.fetchFilterList(mainlistURL) up to its first await.
fetchFilterListCalled(w, mainlistURL, web) ==
    [w EXCEPT !.tasks = Append(@,
        [op |-> "fetchFilterList", pc |-> "parts", assetKey |-> "",
         url |-> mainlistURL, web |-> web,
         pending |-> <<PromisePart(mainlistURL)>>, sublistURLs |-> <<>>,
         resourceTime |-> 0, fetched |-> <<>>, errors |-> {}])]

\* The parts the call waits for have settled: one pass of its loop.
partsSettled(w, i) ==
    LET task == w.tasks[i]
        pass == fetchFilterListPass(task.url, task.web, task.pending,
                                    task.sublistURLs, task.resourceTime,
                                    task.fetched, task.errors)
        carry(p) ==
            IF p.done
            THEN Note([w EXCEPT !.tasks = RemoveAt(@, i)], "assembled",
                      [url |-> task.url, web |-> task.web, fetched |-> p.fetched,
                       details |-> p.details])
            ELSE [w EXCEPT !.tasks[i] =
                    [@ EXCEPT !.pending = p.pending,
                              !.sublistURLs = p.sublistURLs,
                              !.resourceTime = p.resourceTime,
                              !.fetched = p.fetched, !.errors = p.errors]]
    IN  Bind(pass, carry)

FetchFilterListCalled(mainlistURL, web) ==
    /\ calls < MaxCalls
    /\ tasks = <<>>
    /\ Commit(fetchFilterListCalled(Called(World), mainlistURL, web))

PartsSettled(i) ==
    /\ tasks[i].op = "fetchFilterList"
    /\ Commit(partsSettled(World, i))

InitAssembly == InitWith(ListSourceRegistries, EmptyCaches, {<<"selected">>})

NextAssembly ==
    \/ \E mainlistURL \in MainURLs :
          \E web \in AssemblyWebs(mainlistURL) : FetchFilterListCalled(mainlistURL, web)
    \/ \E i \in DOMAIN tasks : PartsSettled(i)

\* Every request ends, by a load, an error or the timeout of assets.fetch:
\* the parts a call waits for do settle.
SpecAssembly ==
    /\ InitAssembly
    /\ [][NextAssembly]_vars
    /\ ([]<>(tasks = <<>>) \/ []<><<\E i \in DOMAIN tasks : PartsSettled(i)>>_vars)

\* The URLs a call has scheduled a fetch of so far, in order: the first is
\* that of the main list, the others are those of sublists.
ScheduledBy(task) ==
    LET promises == SelectSeq(task.pending, LAMBDA part : part.type = "promise")
    IN  task.fetched \o [j \in DOMAIN promises |-> promises[j].url]

NoneTwice(urls, from) ==
    \A i, j \in from..Len(urls) : i # j => urls[i] # urls[j]

\* No URL is scheduled twice as a sublist.
SublistsOnce ==
    /\ \A i \in DOMAIN tasks : NoneTwice(ScheduledBy(tasks[i]), 2)
    /\ Has(hist.step, "assembled") => NoneTwice(hist.step.assembled.fetched, 2)

\* No URL is scheduled twice, as the main list or as a sublist.
ScheduledOnce ==
    /\ \A i \in DOMAIN tasks : NoneTwice(ScheduledBy(tasks[i]), 1)
    /\ Has(hist.step, "assembled") => NoneTwice(hist.step.assembled.fetched, 1)

\* Every call of fetchFilterList returns.
AssemblyEnds == (tasks # <<>>) ~> Has(hist.step, "assembled")

\* C33: during one call of fetchFilterList no URL of a sublist is scheduled
\* for fetching more than once, and the assembly terminates, for lists
\* that include each other in a circle too.
C33_OnceAndTerminates == []ScheduledOnce /\ AssemblyEnds

\* A call has returned a list assembled from a main list and two sublists
\* that include each other.
CircleAssembled ==
    /\ Has(hist.step, "assembled")
    /\ ~Has(hist.step.assembled.details, "error")
    /\ LET assembled == hist.step.assembled
           dir == DirectoryOf(assembled.url)
       IN  /\ Len(assembled.fetched) = 4
           /\ SubSeq(assembled.fetched, 1, 3) = <<assembled.url, dir \o "s1", dir \o "s2">>
           /\ "s2" \in {IncludesOf(assembled.web[dir \o "s1"].response)[j].name :
                          j \in DOMAIN IncludesOf(assembled.web[dir \o "s1"].response)}
           /\ assembled.web[dir \o "s2"].response = CircularBody

(***************************************************************************)
(* The list of observers: addObserver, removeObserver and the loop of      *)
(* fireNotification, with observers that change the list while they are    *)
(* notified.                                                               *)
(*   "oneShot"    calls assets.removeObserver on itself                    *)
(*   "recruiter"  calls assets.addObserver("logger")                       *)
(***************************************************************************)
Observers == {"selected", "unselected", "logger", "oneShot", "recruiter"}

\* observers.indexOf(observer), counted from 1; 0 when it is not there.
indexOf(obs, observer) ==
    IF \E i \in DOMAIN obs : obs[i] = observer
    THEN CHOOSE i \in DOMAIN obs :
            obs[i] = observer /\ \A j \in 1..(i - 1) : obs[j] # observer
    ELSE 0

\* An addObserver that does not look first.
pushesAlways(obs, observer) == Append(obs, observer)

\* assets.addObserver(observer)
addObserver(obs, observer) ==
    IF indexOf(obs, observer) = 0 THEN Append(obs, observer) ELSE obs

\* assets.removeObserver(observer)
RECURSIVE removeObserver(_, _)
removeObserver(obs, observer) ==
    IF indexOf(obs, observer) # 0
    THEN removeObserver(RemoveAt(obs, indexOf(obs, observer)), observer)
    ELSE obs

\* What a call of observer does to the list.
ObserverActs(observer, obs) ==
    CASE observer = "oneShot" -> removeObserver(obs, "oneShot")
      [] observer = "recruiter" -> addObserver(obs, "logger")
      [] OTHER -> obs

Reentrant == {"oneShot", "recruiter"}

\* for ( const observer of observers ) of fireNotification, from the
\* position at of the iterator on: the list as the calls leave it, the
\* observers called, in order, and the value returned.
RECURSIVE notifyLoop(_, _, _, _, _, _)
notifyLoop(obs, at, topic, details, result, invoked) ==
    IF at > Len(obs)
    THEN [observers |-> obs, invoked |-> invoked, result |-> result]
    ELSE LET observer == obs[at]
             r == ObserverReturns(observer, topic, details)
         IN  notifyLoop(ObserverActs(observer, obs), at + 1, topic, details,
                        IF r # "undefined" THEN r ELSE result,
                        Append(invoked, observer))

\* fireNotification(topic, details) with observers that may act on the list.
notify(w, topic, details) ==
    LET done == notifyLoop(w.observers, 1, topic, details, "undefined", <<>>)
    IN  Note([fireNotification(w, topic, details) EXCEPT
                 !.observers = done.observers],
             "notified", [topic |-> topic, details |-> details,
                          registered |-> w.observers,
                          invoked |-> done.invoked, result |-> done.result])

AddObserver(observer) ==
    /\ observer \in Observers
    /\ Commit(Note([World EXCEPT !.observers = addObserver(@, observer)],
                   "addObserver", observer))

RemoveObserver(observer) ==
    /\ observer \in Observers
    /\ Commit(Note([World EXCEPT !.observers = removeObserver(@, observer)],
                   "removeObserver", observer))

BusTopics == {"before-asset-updated", "asset-updated"}

\* A notification, as the functions of the module fire them.
FireNotification(topic, details) ==
    /\ topic \in BusTopics
    /\ Commit(notify(World, topic, details))

InitBus == InitWith(ListSourceRegistries, EmptyCaches, {<<>>})

NextBus ==
    \/ \E observer \in Observers : AddObserver(observer)
    \/ \E observer \in Observers : RemoveObserver(observer)
    \/ \E topic \in BusTopics, assetKey \in AssetKeys :
          FireNotification(topic, [assetKey |-> assetKey])

SpecBus == InitBus /\ [][NextBus]_vars

\* The list holds each observer at most once.
HeldOnce == \A i, j \in DOMAIN observers : i # j => observers[i] # observers[j]

\* The step is a notification, which called the observers registered, once
\* each and in the order of their registration, and returned the last
\* value that is not undefined.
NotifiedInOrder ==
    /\ hist'.step.notified.invoked = observers
    /\ hist'.step.notified.result =
          fireNotificationResult(observers, hist'.step.notified.topic,
                                 hist'.step.notified.details)

\* C34 as stated: after any sequence of addObserver and removeObserver the
\* list holds each observer at most once; fireNotification invokes every
\* registered observer exactly once, in registration order, and returns
\* the last return value that is not undefined (undefined when there is
\* none).
C34_OnceInOrder ==
    /\ []HeldOnce
    /\ [][Has(hist'.step, "notified") => NotifiedInOrder]_vars

\* C34, amended: the same, for the notifications during which no observer
\* calls addObserver or removeObserver.
C34_OnceInOrderUnlessReentered ==
    /\ []HeldOnce
    /\ [][(Has(hist'.step, "notified") /\ Range(observers) \cap Reentrant = {})
             => NotifiedInOrder]_vars

\* Three observers were notified, none of which acts on the list; the
\* value returned is that of the second, the third returning undefined.
C34_Witness ==
    /\ Has(hist.step, "notified")
    /\ hist.step.notified.registered = <<"selected", "unselected", "logger">>
    /\ hist.step.notified.invoked = hist.step.notified.registered
    /\ hist.step.notified.topic = "before-asset-updated"
    /\ hist.step.notified.result = "false"
    /\ observers = hist.step.notified.registered

\* An observer that removes itself while it is notified has the observer
\* registered after it passed over.
FollowerSkipped ==
    /\ Has(hist.step, "notified")
    /\ \E i \in DOMAIN hist.step.notified.registered :
          /\ hist.step.notified.registered[i] = "oneShot"
          /\ i < Len(hist.step.notified.registered)
          /\ hist.step.notified.registered[i + 1]
                \notin Range(hist.step.notified.invoked)

(***************************************************************************)
(* assets.get of keys that the source registry does not hold: a key that   *)
(* is a URL and was never registered, a key unregistered while the get is  *)
(* under way.                                                              *)
(***************************************************************************)
ForeignKeys == {"k1", "https://a/2"}

InitForeign == InitWith(StoredSourceRegistries, EmptyCaches, {<<"selected">>})

NextForeign ==
    \/ getAssetSourceRegistry
    \/ SourceRegistryLoaded
    \/ getAssetCacheRegistry
    \/ CacheRegistryLoaded
    \/ Tick
    \/ CacheSaveTimerFires
    \/ Removed
    \/ UnregisterAssetSource("k1")
    \/ \E assetKey \in ForeignKeys, options \in GetOptions : Get(assetKey, options)
    \/ \E i \in DOMAIN tasks : GetRead(i)
    \/ \E i \in DOMAIN tasks : GetFetched(i, SimpleRuns)

SpecForeign == InitForeign /\ [][NextForeign]_vars

\* In the step a call of assets.get returns.
GetReturns == Has(ret', "get")

\* C35: assets.get never adds a key to the source registry: when a get
\* returns for a key that the registry did not hold, never registered or
\* unregistered while the get was under way, the keys of the source
\* registry are those it had before, whether the fetch succeeded or
\* failed.
C35_GetAddsNoSource ==
    [][(GetReturns /\ ret'.get.assetKey \notin DOMAIN assetSourceRegistry)
          => DOMAIN assetSourceRegistry' = DOMAIN assetSourceRegistry]_vars

\* A get that ends without content, or with content that it does not
\* cache, leaves the keys of the source registry as they were.
FailedGetAddsNoSource ==
    [][(GetReturns /\ ~Has(hist'.step, "cached"))
          => DOMAIN assetSourceRegistry' = DOMAIN assetSourceRegistry]_vars

\* A get for a key that the registry does not hold has ended with an
\* error, and the registry still does not hold the key.
ForeignGetFailed ==
    /\ Has(ret, "get")
    /\ Has(ret.get, "error")
    /\ Has(hist.step, "got")
    /\ ret.get.assetKey \notin DOMAIN assetSourceRegistry

====
